---------------------------- MODULE Spec2Model ----------------------------
(***************************************************************************)
(* Model of the ADK detection engine (arkaft-adk-agents):                  *)
(*   - AdkProjectDetector: detect_adk_project, estimate_project_size,      *)
(*     determine_project_type, find_adk_projects                           *)
(*   - AdkConfigDetector: detect_adk_config and its helpers,               *)
(*     validate_adk_config                                                 *)
(*   - FileValidator: validate_file, validate_files,                       *)
(*     is_suitable_for_review, get_file_statistics                         *)
(* File contents are TLA+ strings; the string operators below compute what *)
(* the Rust str methods compute on ASCII text.                             *)
(***************************************************************************)
EXTENDS Integers, Sequences, FiniteSets, TLC

(***************************************************************************)
(* Bounds of the model.                                                    *)
(***************************************************************************)
\* Number of file-system nodes (directories, plain files, symlinks) a tree
\* handed to find_adk_projects may hold, the root included.
MaxNodes == 4

\* Number of lines of a generated Cargo.toml.
MaxLines == 2

\* Number of symbolic links the operating system resolves in one path before
\* it fails the lookup (ELOOP).
MaxSymlinkHops == 2

(***************************************************************************)
(* Rust str and Option helpers.                                            *)
(***************************************************************************)
None == <<>>

Some(v) == <<v>>

\* str::contains(pat)
Contains(s, pat) ==
    \E i \in 1..(Len(s) - Len(pat) + 1) : SubSeq(s, i, i + Len(pat) - 1) = pat

\* str::find(pat): Some(byte offset of the first match) or None
Find(s, pat) ==
    LET hits == {i \in 1..(Len(s) - Len(pat) + 1) :
                    SubSeq(s, i, i + Len(pat) - 1) = pat}
    IN  IF hits = {} THEN None
        ELSE Some((CHOOSE i \in hits : \A j \in hits : i <= j) - 1)

\* &s[from..] with a 0-based byte offset
SliceFrom(s, from) == SubSeq(s, from + 1, Len(s))

\* &s[from..to] with 0-based byte offsets, to exclusive
Slice(s, from, to) == SubSeq(s, from + 1, to)

\* str::lines(): split at "\n"; a final empty piece is not a line
RECURSIVE Lines(_)
Lines(s) ==
    IF s = "" THEN <<>>
    ELSE LET nl == Find(s, "\n")
         IN  IF nl = None THEN <<s>>
             ELSE <<Slice(s, 0, nl[1])>> \o Lines(SliceFrom(s, nl[1] + 1))

\* char::is_numeric on the ASCII range
is_numeric(c) == c \in {"0", "1", "2", "3", "4", "5", "6", "7", "8", "9"}

StartsWith(s, pat) == Len(s) >= Len(pat) /\ SubSeq(s, 1, Len(pat)) = pat

(***************************************************************************)
(* AdkProjectDetector::default                                             *)
(***************************************************************************)
default_max_file_size == 50 * 1024 * 1024

adk_rust_dependencies ==
    <<"google-adk", "google-cloud-adk", "adk-core", "adk-runtime",
      "google-genai", "vertexai", "rmcp">>

adk_python_dependencies ==
    <<"google-adk", "google-cloud-adk", "google-genai", "vertexai",
      "google-cloud-aiplatform", "adk-agents">>

check_rust_adk_dependencies(cargo_content) ==
    \E i \in DOMAIN adk_rust_dependencies :
        Contains(cargo_content, adk_rust_dependencies[i])

check_python_adk_dependencies(requirements_content) ==
    \E i \in DOMAIN adk_python_dependencies :
        Contains(requirements_content, adk_python_dependencies[i])

\* Variant of cargo_line_version that takes the first quoted text of the
\* dependency line, with or without a `version = ` key in front of it.
cargo_line_version_any_quote(line) ==
    IF Contains(line, "google-adk") \/ Contains(line, "adk-core")
    THEN LET vs == Find(line, "\"")
         IN  IF vs = None THEN None
             ELSE LET version_start == vs[1] + 1
                      ve == Find(SliceFrom(line, version_start), "\"")
                  IN  IF ve = None THEN None
                      ELSE Some(Slice(line, version_start, version_start + ve[1]))
    ELSE None

\* The version a single line yields for extract_adk_version_from_cargo.
cargo_line_version(line) ==
    IF Contains(line, "google-adk") \/ Contains(line, "adk-core")
    THEN LET vs == Find(line, "version = \"")
         IN  IF vs = None THEN None
             ELSE LET version_start == vs[1] + 11
                      ve == Find(SliceFrom(line, version_start), "\"")
                  IN  IF ve = None THEN None
                      ELSE Some(Slice(line, version_start, version_start + ve[1]))
    ELSE None

\* First Some(..) of f over the lines, in order: the early return of the loop.
RECURSIVE first_some(_, _)
first_some(vals, i) ==
    IF i > Len(vals) THEN None
    ELSE IF vals[i] # None THEN vals[i]
    ELSE first_some(vals, i + 1)

extract_adk_version_from_cargo(cargo_content) ==
    LET ls == Lines(cargo_content)
    IN  first_some([i \in DOMAIN ls |-> cargo_line_version(ls[i])], 1)


(***************************************************************************)
(* The file system the detectors read.                                     *)
(*                                                                         *)
(* fs is a sequence of nodes; node 1 is the root handed to the detector.   *)
(* A node is a directory, a plain file, a symbolic link to a directory, or *)
(* "missing" (a root path that does not exist).  A directory carries in    *)
(* `files` its regular files with well-known names (Cargo.toml, .env, ...) *)
(* as a function name -> [readable, content, size]; every other entry of a *)
(* directory is a node whose `parent` is that directory.  `listable` says  *)
(* whether fs::read_dir succeeds on the directory.                         *)
(* A path is the sequence of nodes walked from the root, so the same       *)
(* directory reached through a symlink has a different path.               *)
(***************************************************************************)
NoFiles == [n \in {} |-> [readable |-> FALSE, content |-> "", size |-> 0]]

TextFile(text) == [readable |-> TRUE, content |-> text, size |-> Len(text)]

\* A file whose fs::read_to_string fails (permission denied, not UTF-8).
UnreadableFile(bytes) == [readable |-> FALSE, content |-> "", size |-> bytes]

DirNode(p, nm, ls, fl) ==
    [parent |-> p, name |-> nm, kind |-> "dir", listable |-> ls,
     target |-> 0, size |-> 0, files |-> fl]

\* A regular file with another name; files[nm] is its own content.
FileNode(p, nm, st) ==
    [parent |-> p, name |-> nm, kind |-> "file", listable |-> FALSE,
     target |-> 0, size |-> st.size, files |-> [n \in {nm} |-> st]]

SymlinkNode(p, nm, t) ==
    [parent |-> p, name |-> nm, kind |-> "symlink", listable |-> FALSE,
     target |-> t, size |-> 0, files |-> NoFiles]

MissingNode ==
    [parent |-> 0, name |-> "root", kind |-> "missing", listable |-> FALSE,
     target |-> 0, size |-> 0, files |-> NoFiles]

RootPath == <<1>>

Last(p) == p[Len(p)]

\* Number of symbolic links on a path.
SymlinkHops(f, p) == Cardinality({i \in DOMAIN p : f[p[i]].kind = "symlink"})

\* The node a path denotes once its final symlink is followed.
Resolve(f, p) ==
    IF f[Last(p)].kind = "symlink" THEN f[Last(p)].target ELSE Last(p)

\* The path can be looked up at all: the OS gives up after MaxSymlinkHops links.
Reachable(f, p) == SymlinkHops(f, p) <= MaxSymlinkHops

\* Path::is_dir: follows symbolic links.
is_dir(f, p) == Reachable(f, p) /\ f[Resolve(f, p)].kind = "dir"

\* Path::is_file: follows symbolic links.
is_file(f, p) == Reachable(f, p) /\ f[Resolve(f, p)].kind = "file"

\* Path::file_name
file_name(f, p) == f[Last(p)].name

\* The well-known regular files of the directory at p.
FilesAt(f, p) == IF is_dir(f, p) THEN f[Resolve(f, p)].files ELSE NoFiles

\* path.join(name).exists() for a well-known file name
file_exists(f, p, name) == name \in DOMAIN FilesAt(f, p)

\* fs::read_to_string(path.join(name)): Some(content) for Ok, None for Err
read_to_string(f, p, name) ==
    IF file_exists(f, p, name) /\ FilesAt(f, p)[name].readable
    THEN Some(FilesAt(f, p)[name].content)
    ELSE None

\* The child nodes of the directory at p, in the order read_dir yields them.
Children(f, p) ==
    LET d == Resolve(f, p)
        under(c) == f[c].parent = d
    IN  SelectSeq([c \in 1..Len(f) |-> c], under)

\* fs::read_dir(p) succeeds
can_read_dir(f, p) == is_dir(f, p) /\ f[Resolve(f, p)].listable

\* path.join("a/b"): the path of the entry reached by the names, <<>> if none
RECURSIVE join(_, _, _)
join(f, p, names) ==
    IF names = <<>> THEN p
    ELSE IF ~is_dir(f, p) THEN <<>>
    ELSE LET hit == {c \in 1..Len(f) :
                        f[c].parent = Resolve(f, p) /\ f[c].name = names[1]}
         IN  IF hit = {} THEN <<>>
             ELSE join(f, p \o <<CHOOSE c \in hit : TRUE>>, Tail(names))

\* path.join(dir).is_dir() for a relative directory path
dir_exists(f, p, names) ==
    LET q == join(f, p, names) IN q # <<>> /\ is_dir(f, q)

\* The directory names both walks skip.
is_skipped_name(name) ==
    name \in {"target", "node_modules", ".git", "__pycache__", ".venv"}

(***************************************************************************)
(* AdkProjectDetector: classification of one directory.                    *)
(***************************************************************************)
adk_config_files ==
    <<".env", ".env.template", "adk.toml", "adk-config.json",
      "vertex-config.json", "google-cloud-config.json">>

adk_directories ==
    << <<"multi_tool_agent">>, <<"adk_agents">>, <<"src", "expert">>,
       <<"src", "review">> >>

config_file_has_adk_content(content) ==
    \/ Contains(content, "GOOGLE_API_KEY")
    \/ Contains(content, "VERTEXAI")
    \/ Contains(content, "ADK")
    \/ Contains(content, "google-genai")

\* Never fails: every probe falls through on an I/O error.
check_adk_config_files(f, p) ==
    \/ \E i \in DOMAIN adk_config_files :
          LET content == read_to_string(f, p, adk_config_files[i])
          IN  content # None /\ config_file_has_adk_content(content[1])
    \/ \E i \in DOMAIN adk_directories : dir_exists(f, p, adk_directories[i])

\* visit_dir: acc = [ok, total, adds, dirs]; ok = FALSE is the propagated Err.
\* adds records the running total after each file added, dirs each directory
\* whose listing was attempted.
RECURSIVE visit_dir(_, _, _, _)
RECURSIVE visit_entries(_, _, _, _, _, _)
visit_dir(f, p, acc, max_size) ==
    IF acc.total > max_size THEN acc
    ELSE IF ~can_read_dir(f, p)
         THEN [acc EXCEPT !.ok = FALSE, !.dirs = Append(@, p)]
    ELSE LET files == FilesAt(f, p)
             RECURSIVE add_files(_, _)
             add_files(todo, a) ==
                 IF todo = {} THEN a
                 ELSE LET nm == CHOOSE x \in todo : TRUE
                          t  == a.total + files[nm].size
                      IN  add_files(todo \ {nm},
                              [a EXCEPT !.total = t, !.adds = Append(@, t)])
         IN  visit_entries(f, p, Children(f, p), 1,
                 add_files(DOMAIN files, [acc EXCEPT !.dirs = Append(@, p)]),
                 max_size)

visit_entries(f, p, kids, i, acc, max_size) ==
    IF i > Len(kids) THEN acc
    ELSE LET q == p \o <<kids[i]>>
         IN  IF is_skipped_name(file_name(f, q))
             THEN visit_entries(f, p, kids, i + 1, acc, max_size)
             ELSE IF is_dir(f, q)
             THEN LET r == visit_dir(f, q, acc, max_size)
                  IN  IF ~r.ok THEN r
                      ELSE visit_entries(f, p, kids, i + 1, r, max_size)
             ELSE IF is_file(f, q)
             THEN LET t == acc.total + f[Last(q)].size  \* entry.metadata()
                  IN  visit_entries(f, p, kids, i + 1,
                          [acc EXCEPT !.total = t, !.adds = Append(@, t)],
                          max_size)
             ELSE visit_entries(f, p, kids, i + 1, acc, max_size)

estimate_project_size(f, p, max_size) ==
    visit_dir(f, p, [ok |-> TRUE, total |-> 0, adds |-> <<>>, dirs |-> <<>>],
              max_size)

\* Variant of contains_mcp_marker that looks for "rmcp" alone.
contains_mcp_marker_rmcp_only(cargo_content) == Contains(cargo_content, "rmcp")

contains_mcp_marker(cargo_content) ==
    Contains(cargo_content, "rmcp") \/ Contains(cargo_content, "mcp")

\* Variant of determine_project_type without the Python default for a
\* directory that has ADK configuration and no manifest.
determine_project_type_no_default(f, info) ==
    LET has_adk == info.has_adk_dependencies \/ info.has_adk_config
        cargo   == read_to_string(f, info.root_path, "Cargo.toml")
    IN  IF ~has_adk THEN "None"
        ELSE IF info.has_cargo_toml /\ info.has_requirements_txt THEN "Mixed"
        ELSE IF info.has_cargo_toml
             THEN IF cargo # None /\ contains_mcp_marker(cargo[1])
                  THEN "McpAdkServer" ELSE "RustAdk"
        ELSE IF info.has_requirements_txt THEN "PythonAdk"
        ELSE "None"

determine_project_type(f, info) ==
    LET has_rust   == info.has_cargo_toml
        has_python == info.has_requirements_txt
        has_adk    == info.has_adk_dependencies \/ info.has_adk_config
        cargo      == read_to_string(f, info.root_path, "Cargo.toml")
    IN  IF ~has_adk THEN "None"
        ELSE IF has_rust /\ has_python THEN "Mixed"
        ELSE IF has_rust
             THEN IF cargo # None /\ contains_mcp_marker(cargo[1])
                  THEN "McpAdkServer" ELSE "RustAdk"
        ELSE IF has_python THEN "PythonAdk"
        ELSE IF info.has_adk_config THEN "PythonAdk"
        ELSE "None"

\* detect_adk_project: [ok, info]; ok = FALSE is the Err of the `?` on
\* estimate_project_size (info then holds what had been collected).
detect_adk_project(f, p, max_size) ==
    LET cargo == read_to_string(f, p, "Cargo.toml")
        req   == read_to_string(f, p, "requirements.txt")
        size  == estimate_project_size(f, p, max_size)
        collected ==
            [project_type         |-> "None",
             root_path            |-> p,
             has_cargo_toml       |-> file_exists(f, p, "Cargo.toml"),
             has_requirements_txt |-> file_exists(f, p, "requirements.txt"),
             has_adk_dependencies |->
                 \/ cargo # None /\ check_rust_adk_dependencies(cargo[1])
                 \/ req # None /\ check_python_adk_dependencies(req[1]),
             has_adk_config       |-> check_adk_config_files(f, p),
             estimated_size       |-> size.total,
             adk_version          |->
                 IF cargo # None THEN extract_adk_version_from_cargo(cargo[1])
                 ELSE None]
    IN  [ok   |-> size.ok,
         info |-> [collected EXCEPT
                      !.project_type = IF size.ok
                                       THEN determine_project_type(f, collected)
                                       ELSE "None"]]


(***************************************************************************)
(* AdkConfigDetector                                                       *)
(***************************************************************************)
adk_env_vars ==
    <<"GOOGLE_API_KEY", "GOOGLE_APPLICATION_CREDENTIALS",
      "GOOGLE_GENAI_USE_VERTEXAI", "VERTEXAI_PROJECT", "VERTEXAI_LOCATION",
      "ADK_VERSION", "ADK_DOCS_VERSION", "RUST_LOG">>

adk_config_keys ==
    <<"google-adk", "google-genai", "vertexai", "adk-core", "adk-runtime",
      "rmcp", "arkaft-mcp-google-adk">>

google_api_patterns ==
    <<"GOOGLE_API_KEY", "google_api_key", "googleApiKey",
      "GOOGLE_APPLICATION_CREDENTIALS", "google-cloud">>

vertex_ai_patterns ==
    <<"VERTEXAI", "vertex_ai", "vertexAi", "GOOGLE_GENAI_USE_VERTEXAI",
      "vertex-ai">>

\* config_patterns of find_config_files: [dir, name], dir relative to the root
config_patterns ==
    LET top(n) == [dir |-> <<>>, name |-> n]
    IN  <<top(".env"), top(".env.template"), top(".env.local"),
          top(".env.production"), top(".env.development"),
          top("Cargo.toml"), top("requirements.txt"), top("setup.py"),
          top("pyproject.toml"),
          top("config.json"), top("config.yaml"), top("config.yml"),
          top("config.toml"), top("adk.toml"), top("adk-config.json"),
          top("vertex-config.json"), top("google-cloud-config.json"),
          top("mcp.json"),
          [dir |-> <<".kiro", "settings">>, name |-> "mcp.json"]>>

config_subdirs == << <<"src">>, <<"config">>, <<".kiro", "settings">> >>

\* The order in which read_dir yields the regular files kept in `files`.
FileOrder ==
    <<".env", ".env.template", ".env.local", ".env.production",
      ".env.development", "Cargo.toml", "requirements.txt", "setup.py",
      "pyproject.toml", "config.json", "config.yaml", "config.yml",
      "config.toml", "adk.toml", "adk-config.json", "vertex-config.json",
      "google-cloud-config.json", "mcp.json", "settings.json", "main.rs",
      "notes.txt">>

\* str::to_lowercase on ASCII text
RECURSIVE to_lowercase(_)
to_lowercase(s) ==
    IF s = "" THEN ""
    ELSE LET up == "ABCDEFGHIJKLMNOPQRSTUVWXYZ"
             lo == "abcdefghijklmnopqrstuvwxyz"
             c  == SubSeq(s, 1, 1)
             at == Find(up, c)
         IN  (IF at = None THEN c ELSE SubSeq(lo, at[1] + 1, at[1] + 1))
             \o to_lowercase(SliceFrom(s, 1))

\* filename.split('.').last()
RECURSIVE last_dot_piece(_)
last_dot_piece(s) ==
    LET dot == Find(s, ".")
    IN  IF dot = None THEN s ELSE last_dot_piece(SliceFrom(s, dot[1] + 1))

\* Path::extension: None without a dot after the first character
extension(filename) ==
    IF Find(SliceFrom(filename, 1), ".") = None \/ filename = ""
    THEN None
    ELSE Some(last_dot_piece(filename))

is_config_file(filename) ==
    \/ last_dot_piece(filename) \in {"json", "yaml", "yml", "toml", "env"}
    \/ \E nm \in {"config", "settings", "adk", "vertex", "google"} :
          Contains(to_lowercase(filename), nm)

\* A discovered file: `at` is the path of its directory (or of the file node
\* itself), `name` its file name.
ConfigRef(at, name) == [at |-> at, name |-> name]

RefState(f, ref) ==
    IF is_file(f, ref.at) THEN f[Resolve(f, ref.at)].files[ref.name]
    ELSE FilesAt(f, ref.at)[ref.name]

\* The regular files of the directory at p as read_dir yields them: the
\* files kept in `files`, then the file nodes.
dir_regular_files(f, p) ==
    LET here(n)  == n \in DOMAIN FilesAt(f, p)
        named    == SelectSeq(FileOrder, here)
        kids     == Children(f, p)
        isfile(c) == is_file(f, p \o <<c>>)
        nodes    == SelectSeq(kids, isfile)
    IN  [i \in DOMAIN named |-> ConfigRef(p, named[i])]
        \o [i \in DOMAIN nodes |->
               ConfigRef(p \o <<nodes[i]>>, file_name(f, p \o <<nodes[i]>>))]

RECURSIVE concat_all(_, _)
concat_all(seqs, i) ==
    IF i > Len(seqs) THEN <<>> ELSE seqs[i] \o concat_all(seqs, i + 1)

find_config_files(f, p) ==
    LET explicit(i) ==
            LET d == join(f, p, config_patterns[i].dir)
            IN  IF d # <<>> /\ file_exists(f, d, config_patterns[i].name)
                THEN <<ConfigRef(d, config_patterns[i].name)>>
                ELSE <<>>
        scanned(i) ==
            LET d == join(f, p, config_subdirs[i])
                isconf(r) == is_config_file(r.name)
            IN  IF d # <<>> /\ can_read_dir(f, d)
                THEN SelectSeq(dir_regular_files(f, d), isconf)
                ELSE <<>>
    IN  concat_all([i \in DOMAIN config_patterns |-> explicit(i)], 1)
        \o concat_all([i \in DOMAIN config_subdirs |-> scanned(i)], 1)

determine_config_type(filename) ==
    IF filename = "Cargo.toml" THEN "CargoToml"
    ELSE IF filename = "requirements.txt" THEN "Requirements"
    ELSE IF filename \in {"setup.py", "pyproject.toml"} THEN "PythonBuild"
    ELSE IF filename = "mcp.json" THEN "McpConfig"
    ELSE IF StartsWith(filename, ".env") THEN "Environment"
    ELSE LET ext == extension(filename)
         IN  IF ext = None THEN "Unknown"
             ELSE IF to_lowercase(ext[1]) = "json" THEN "Json"
             ELSE IF to_lowercase(ext[1]) \in {"yaml", "yml"} THEN "Yaml"
             ELSE IF to_lowercase(ext[1]) = "toml" THEN "Toml"
             ELSE "Unknown"

\* The "tag:marker" entries one marker list contributes, in list order.
tagged_hits(content, tag, markers) ==
    LET hit(m) == Contains(content, m)
        found  == SelectSeq(markers, hit)
    IN  [i \in DOMAIN found |-> tag \o ":" \o found[i]]

\* analyze_config_file: [ok, file_info]; ok = FALSE is the Err of the read.
analyze_config_file(f, ref) ==
    LET st == RefState(f, ref)
        detected_settings ==
            IF ~st.readable THEN <<>>
            ELSE tagged_hits(st.content, "env", adk_env_vars)
                 \o tagged_hits(st.content, "key", adk_config_keys)
                 \o tagged_hits(st.content, "google", google_api_patterns)
                 \o tagged_hits(st.content, "vertex", vertex_ai_patterns)
    IN  [ok        |-> st.readable,
         file_info |-> [path                  |-> ref,
                        config_type           |-> determine_config_type(ref.name),
                        contains_adk_settings |-> detected_settings # <<>>,
                        detected_settings     |-> detected_settings]]

\* The version a single line yields for extract_adk_version.
config_line_version(line) ==
    IF Contains(line, "google-adk") /\ Contains(line, "version")
    THEN LET start == Find(line, "\"")
         IN  IF start = None THEN None
             ELSE LET end == Find(SliceFrom(line, start[1] + 1), "\"")
                  IN  IF end = None THEN None
                      ELSE LET version ==
                                   Slice(line, start[1] + 1, start[1] + 1 + end[1])
                           IN  IF version # "" /\ is_numeric(SubSeq(version, 1, 1))
                               THEN Some(version) ELSE None
    ELSE None

extract_adk_version(content) ==
    LET ls == Lines(content)
    IN  first_some([i \in DOMAIN ls |-> config_line_version(ls[i])], 1)

\* str::trim on ASCII white space
RECURSIVE trim_start(_)
trim_start(s) ==
    IF s # "" /\ SubSeq(s, 1, 1) \in {" ", "\t", "\r"}
    THEN trim_start(SliceFrom(s, 1)) ELSE s

RECURSIVE trim_end(_)
trim_end(s) ==
    IF s # "" /\ SubSeq(s, Len(s), Len(s)) \in {" ", "\t", "\r"}
    THEN trim_end(SubSeq(s, 1, Len(s) - 1)) ELSE s

trim(s) == trim_end(trim_start(s))

\* Variant of map_insert that keeps the value a key already has.
map_insert_if_absent(m, k, v) ==
    [x \in DOMAIN m \cup {k} |-> IF x \in DOMAIN m THEN m[x] ELSE v]

\* HashMap::insert on a map kept as a function
map_insert(m, k, v) ==
    [x \in DOMAIN m \cup {k} |-> IF x = k THEN v ELSE m[x]]

in_list(list, x) == \E i \in DOMAIN list : list[i] = x

is_adk_env_var_any_key(key) == TRUE

\* self.adk_env_vars.contains(&key)
is_adk_env_var(key) == in_list(adk_env_vars, key)

RECURSIVE extract_env_lines(_, _, _)
extract_env_lines(ls, i, env_vars) ==
    IF i > Len(ls) THEN env_vars
    ELSE LET line   == trim(ls[i])
             eq_pos == Find(line, "=")
         IN  IF line = "" \/ StartsWith(line, "#") \/ eq_pos = None
             THEN extract_env_lines(ls, i + 1, env_vars)
             ELSE LET key   == trim(Slice(line, 0, eq_pos[1]))
                      value == trim(SliceFrom(line, eq_pos[1] + 1))
                  IN  extract_env_lines(ls, i + 1,
                          IF is_adk_env_var(key)
                          THEN map_insert(env_vars, key, value)
                          ELSE env_vars)

extract_env_variables(content, env_vars) ==
    extract_env_lines(Lines(content), 1, env_vars)

\* Variant of contains_any that asks for every marker.
contains_every(content, markers) ==
    \A i \in DOMAIN markers : Contains(content, markers[i])

contains_any(content, markers) ==
    \E i \in DOMAIN markers : Contains(content, markers[i])

\* Variant of extract_config_details in which a later version replaces an
\* earlier one.
extract_config_details_last_version(f, file_info, config_info) ==
    IF ~file_info.contains_adk_settings
    THEN [ok |-> TRUE, info |-> config_info]
    ELSE LET st == RefState(f, file_info.path)
             content == st.content
         IN  IF ~st.readable THEN [ok |-> FALSE, info |-> config_info]
             ELSE [ok |-> TRUE, info |->
                 [config_info EXCEPT
                    !.adk_version =
                        IF extract_adk_version(content) # None
                        THEN extract_adk_version(content) ELSE @,
                    !.google_api_configured =
                        @ \/ contains_any(content, google_api_patterns),
                    !.vertex_ai_configured =
                        @ \/ contains_any(content, vertex_ai_patterns),
                    !.mcp_server_configured =
                        @ \/ Contains(content, "rmcp")
                          \/ Contains(content, "arkaft-mcp-google-adk")
                          \/ Contains(content, "mcpServers"),
                    !.environment_variables =
                        IF file_info.config_type = "Environment"
                        THEN extract_env_variables(content, @) ELSE @]]

\* extract_config_details: [ok, info]; the file is read a second time.
extract_config_details(f, file_info, config_info) ==
    IF ~file_info.contains_adk_settings
    THEN [ok |-> TRUE, info |-> config_info]
    ELSE LET st == RefState(f, file_info.path)
             content == st.content
         IN  IF ~st.readable THEN [ok |-> FALSE, info |-> config_info]
             ELSE [ok |-> TRUE, info |->
                 [config_info EXCEPT
                    !.adk_version =
                        IF @ = None THEN extract_adk_version(content) ELSE @,
                    !.google_api_configured =
                        @ \/ contains_any(content, google_api_patterns),
                    !.vertex_ai_configured =
                        @ \/ contains_any(content, vertex_ai_patterns),
                    !.mcp_server_configured =
                        @ \/ Contains(content, "rmcp")
                          \/ Contains(content, "arkaft-mcp-google-adk")
                          \/ Contains(content, "mcpServers"),
                    !.environment_variables =
                        IF file_info.config_type = "Environment"
                        THEN extract_env_variables(content, @) ELSE @]]

EmptyConfigInfo ==
    [config_files          |-> <<>>,
     has_adk_config        |-> FALSE,
     adk_version           |-> None,
     google_api_configured |-> FALSE,
     vertex_ai_configured  |-> FALSE,
     mcp_server_configured |-> FALSE,
     environment_variables |-> [k \in {} |-> ""]]

\* The loop of detect_adk_config from file i on; acc = [ok, info].
RECURSIVE config_loop(_, _, _, _)
config_loop(f, refs, i, acc) ==
    IF i > Len(refs) \/ ~acc.ok THEN acc
    ELSE LET a == analyze_config_file(f, refs[i])
         IN  IF ~a.ok THEN [acc EXCEPT !.ok = FALSE]
             ELSE LET seen == [acc.info EXCEPT !.has_adk_config =
                                   @ \/ a.file_info.contains_adk_settings]
                      d == extract_config_details(f, a.file_info, seen)
                  IN  IF ~d.ok THEN [ok |-> FALSE, info |-> d.info]
                      ELSE config_loop(f, refs, i + 1,
                              [ok |-> TRUE, info |->
                                  [d.info EXCEPT !.config_files =
                                       Append(@, a.file_info)]])

\* detect_adk_config: [ok, info]; ok = FALSE is the propagated Err.
detect_adk_config(f, p) ==
    config_loop(f, find_config_files(f, p), 1,
                [ok |-> TRUE, info |-> EmptyConfigInfo])


(***************************************************************************)
(* State.                                                                  *)
(***************************************************************************)
VARIABLES
    fs,              \* the file system the calls read (never written)
    max_file_size,   \* AdkProjectDetector.max_file_size
    pc,              \* "build", "ready", "search" or "done"; in SpecHelpers
                     \* the helper the input is for
    project_result,  \* <<>> or <<the result of detect_adk_project(root)>>
    config_result,   \* <<>> or <<the result of detect_adk_config(root)>>
    stack,           \* the active search_directory calls, innermost last
    projects,        \* the Vec find_adk_projects fills
    classified,      \* the paths search_directory handed to detect_adk_project
    content,         \* a text handed to the version extractors
    cargo_version,   \* <<>> or <<extract_adk_version_from_cargo(content)>>
    config_version,  \* <<>> or <<extract_adk_version(content)>>
    validator,       \* the FileValidator the calls are made on
    file_paths,      \* the paths handed to the validator, with what is there
    file_result,     \* <<>> or <<the result of validate_file(file_paths[1])>>
    batch_result,    \* <<>> or <<the result of validate_files(file_paths)>>
    returned         \* <<>> or <<[call, value]>>: what a helper call returned

vars ==
    <<fs, max_file_size, pc, project_result, config_result, stack, projects,
      classified, content, cargo_version, config_version, validator,
      file_paths, file_result, batch_result, returned>>

\* No validator call is in progress.
NoValidation ==
    /\ validator = <<>>
    /\ file_paths = <<>>
    /\ file_result = <<>>
    /\ batch_result = <<>>

(***************************************************************************)
(* Inputs of the single-directory calls.                                   *)
(***************************************************************************)
CargoPlain == "[dependencies]\ngoogle-adk = \"1.0.0\"\n"

CargoTable == "[dependencies]\ngoogle-adk = { version = \"1.0.0\" }\n"

CargoMcp == "[dependencies]\nrmcp = \"0.6.3\"\ngoogle-adk = \"1.0\"\n"

CargoRmcpOnly == "[dependencies]\nrmcp = \"0.6.3\"\n"

CargoMcpTypes == "[dependencies]\nmcp-types = \"0.1\"\n"

CargoSerde == "[dependencies]\nserde = \"1.0\"\n"

EnvAdk == "GOOGLE_API_KEY=abc\nGOOGLE_GENAI_USE_VERTEXAI=FALSE\n"

EnvOther == "DEBUG=1\n"

EnvMixed == "GOOGLE_API_KEY=abc\nSECRET_TOKEN=xyz\n"

\* A choice for one file: None (absent) or Some(state).
CargoChoices ==
    {None, Some(UnreadableFile(7))}
    \cup {Some(TextFile(t)) : t \in {CargoPlain, CargoTable, CargoMcp,
                                     CargoRmcpOnly, CargoMcpTypes, CargoSerde}}

RequirementsChoices ==
    {None, Some(UnreadableFile(7)), Some(TextFile("google-adk==1.0.0\n")),
     Some(TextFile("requests==2.28.0\n"))}

SetupPyChoices == {None, Some(TextFile("from setuptools import setup\n"))}

EnvChoices ==
    {None, Some(UnreadableFile(7)), Some(TextFile(EnvAdk)),
     Some(TextFile(EnvOther)), Some(TextFile(EnvMixed))}

\* The `files` of a directory from one choice per name.
MkFiles(cargo, req, setup, env) ==
    LET pick == [n \in {"Cargo.toml", "requirements.txt", "setup.py", ".env"} |->
                    CASE n = "Cargo.toml" -> cargo
                      [] n = "requirements.txt" -> req
                      [] n = "setup.py" -> setup
                      [] OTHER -> env]
    IN  [n \in {m \in DOMAIN pick : pick[m] # None} |-> pick[n][1]]

\* What else the root holds: nothing, an ADK directory, a directory that
\* cannot be listed, the two-level src/expert, .kiro/settings with an
\* mcp.json (bare, or naming the ADK server), or config with a .env.
ExtraNodes ==
    { <<>>,
      <<DirNode(1, "adk_agents", TRUE, NoFiles)>>,
      <<DirNode(1, "data", TRUE, NoFiles)>>,
      <<DirNode(1, "data", FALSE, NoFiles)>>,
      <<DirNode(1, "src", TRUE, NoFiles), DirNode(2, "expert", TRUE, NoFiles)>>,
      <<DirNode(1, ".kiro", TRUE, NoFiles),
        DirNode(2, "settings", TRUE,
                [n \in {"mcp.json"} |-> TextFile("{\"mcpServers\": {}}\n")])>>,
      <<DirNode(1, ".kiro", TRUE, NoFiles),
        DirNode(2, "settings", TRUE,
                [n \in {"mcp.json"} |->
                    TextFile("{\"mcpServers\": {\"adk\": {\"command\": "
                             \o "\"./arkaft-mcp-google-adk\"}}}\n")])>>,
      <<DirNode(1, "config", TRUE,
                [n \in {".env"} |-> TextFile("GOOGLE_API_KEY=sub\n")])>> }

\* The other files of the root: none, a pyproject.toml that names another
\* version, or a .env.template that defines one key twice.
OtherRootFiles ==
    { NoFiles,
      [n \in {"pyproject.toml"} |->
          TextFile("[project]\ngoogle-adk = { version = \"2.0.0\" }\n")],
      [n \in {".env.template"} |->
          TextFile("GOOGLE_API_KEY=one\nGOOGLE_API_KEY=two\n")] }

Idle ==
    /\ stack = <<>>
    /\ projects = <<>>
    /\ classified = <<>>
    /\ content = ""
    /\ cargo_version = <<>>
    /\ config_version = <<>>

InitDetect ==
    /\ returned = <<>>
    /\ \E cargo \in CargoChoices, req \in RequirementsChoices,
          setup \in SetupPyChoices, env \in EnvChoices,
          other \in OtherRootFiles, extra \in ExtraNodes,
          listable \in BOOLEAN :
          /\ other = NoFiles \/ extra = <<>>
          /\ fs = <<DirNode(0, "root", listable,
                            MkFiles(cargo, req, setup, env) @@ other)>>
                  \o extra
    /\ max_file_size = default_max_file_size
    /\ pc = "ready"
    /\ project_result = <<>>
    /\ config_result = <<>>
    /\ Idle
    /\ NoValidation

\* A caller runs detect_adk_project on the root.
DetectProject ==
    /\ pc = "ready"
    /\ project_result = <<>>
    /\ project_result' = <<detect_adk_project(fs, RootPath, max_file_size)>>
    /\ UNCHANGED <<returned, validator, file_paths, file_result, batch_result,
                   fs, max_file_size, pc, config_result, stack, projects,
                   classified, content, cargo_version, config_version>>

\* A caller runs detect_adk_config on the root.
DetectConfig ==
    /\ pc = "ready"
    /\ config_result = <<>>
    /\ config_result' = <<detect_adk_config(fs, RootPath)>>
    /\ UNCHANGED <<returned, validator, file_paths, file_result, batch_result,
                   fs, max_file_size, pc, project_result, stack, projects,
                   classified, content, cargo_version, config_version>>

NextDetect == DetectProject \/ DetectConfig

SpecDetect == InitDetect /\ [][NextDetect]_vars


(***************************************************************************)
(* The version extractors as pure functions of a text.                     *)
(***************************************************************************)
VersionLines ==
    {"[dependencies]",
     "google-adk = \"1.0.0\"",
     "google-adk = { version = \"1.0.0\" }",
     "google-adk = { version = \"^1.0\" }",
     "google-adk = { git = \"https://x\", version = \"2.0\" }",
     "google-adk = {version=\"3.0\"}",
     "adk-core = { version = \"0.5.0\" }",
     "serde = { version = \"1.0\" }"}

\* The texts of n lines.
RECURSIVE TextsOfLines(_)
TextsOfLines(n) ==
    IF n = 0 THEN {""}
    ELSE {l \o "\n" \o t : l \in VersionLines, t \in TextsOfLines(n - 1)}

VersionTexts == UNION {TextsOfLines(n) : n \in 1..MaxLines}

InitExtract ==
    /\ returned = <<>>
    /\ content \in VersionTexts
    /\ cargo_version = <<>>
    /\ config_version = <<>>
    /\ fs = <<MissingNode>>
    /\ max_file_size = default_max_file_size
    /\ pc = "ready"
    /\ project_result = <<>>
    /\ config_result = <<>>
    /\ stack = <<>>
    /\ projects = <<>>
    /\ classified = <<>>
    /\ NoValidation

ExtractCargoVersion ==
    /\ cargo_version = <<>>
    /\ cargo_version' = <<extract_adk_version_from_cargo(content)>>
    /\ UNCHANGED <<returned, validator, file_paths, file_result, batch_result,
                   fs, max_file_size, pc, project_result, config_result, stack,
                   projects, classified, content, config_version>>

ExtractConfigVersion ==
    /\ config_version = <<>>
    /\ config_version' = <<extract_adk_version(content)>>
    /\ UNCHANGED <<returned, validator, file_paths, file_result, batch_result,
                   fs, max_file_size, pc, project_result, config_result, stack,
                   projects, classified, content, cargo_version>>

NextExtract == ExtractCargoVersion \/ ExtractConfigVersion

SpecExtract == InitExtract /\ [][NextExtract]_vars

(***************************************************************************)
(* find_adk_projects: the recursion of search_directory as an explicit     *)
(* stack of calls.  A frame is [dir, depth, next]: next = 0 is a call that *)
(* has not yet run its depth check, next = i >= 1 a call whose loop is at  *)
(* the i-th entry of read_dir.                                             *)
(***************************************************************************)
search_max_depth == 3

\* Variant of depth_limit_reached that is late by one level.
depth_limit_reached_late(current_depth, max_depth) == current_depth > max_depth

depth_limit_reached(current_depth, max_depth) == current_depth >= max_depth

\* Variant of search_step that goes on into a directory it has recorded.
search_step_descends_into_project(f, p, max_size) ==
    LET r     == detect_adk_project(f, p, max_size)
        found == r.ok /\ r.info.project_type # "None"
    IN  [record  |-> found,
         info    |-> r.info,
         descend |-> can_read_dir(f, p),
         err     |-> FALSE]

\* Variant of search_step that propagates a failed detection with `?`.
search_step_propagates_error(f, p, max_size) ==
    LET r     == detect_adk_project(f, p, max_size)
        found == r.ok /\ r.info.project_type # "None"
    IN  [record  |-> found,
         info    |-> r.info,
         descend |-> ~found /\ can_read_dir(f, p),
         err     |-> ~r.ok]

\* What search_directory does with a directory below the depth limit:
\* record it as a project, descend into it, or propagate an error.
search_step(f, p, max_size) ==
    LET r     == detect_adk_project(f, p, max_size)
        found == r.ok /\ r.info.project_type # "None"
    IN  [record  |-> found,
         info    |-> r.info,
         descend |-> ~found /\ can_read_dir(f, p),
         err     |-> FALSE]

\* The entry is a directory the loop recurses into.
search_recurses(f, q) == is_dir(f, q) /\ ~is_skipped_name(file_name(f, q))

NodeNames == <<"root", "d2", "d3", "d4", "d5", "d6", "d7", "d8">>

\* A Cargo.toml that names an ADK dependency.
RustFiles == MkFiles(Some(TextFile("google-adk = \"1\"\n")), None, None, None)

\* The nodes that may be added as node n under directory d.
NewNodes(f, d, n) ==
    {DirNode(d, NodeNames[n], TRUE, NoFiles),
     DirNode(d, NodeNames[n], TRUE, RustFiles),
     DirNode(d, NodeNames[n], FALSE, RustFiles),
     DirNode(d, "target", TRUE, RustFiles)}
    \cup {SymlinkNode(d, NodeNames[n], t) : t \in {1, d}}

InitFind ==
    /\ returned = <<>>
    /\ fs \in {<<DirNode(0, "root", TRUE, NoFiles)>>,
               <<DirNode(0, "root", TRUE, RustFiles)>>,
               <<MissingNode>>}
    /\ max_file_size = default_max_file_size
    /\ pc = "build"
    /\ project_result = <<>>
    /\ config_result = <<>>
    /\ Idle
    /\ NoValidation

\* Entries are added to the directories whose entries a walk can come to
\* see: those that can be listed and are not skipped by name.
CanHoldEntries(f, x) ==
    f[x].kind = "dir" /\ f[x].listable /\ ~is_skipped_name(f[x].name)

\* The environment creates one more entry before the call.
AddNode ==
    /\ pc = "build"
    /\ Len(fs) < MaxNodes
    /\ Len(fs) < Len(NodeNames)
    /\ \E d \in {x \in 1..Len(fs) : CanHoldEntries(fs, x)} :
         \E node \in NewNodes(fs, d, Len(fs) + 1) :
            /\ \A c \in 1..Len(fs) :
                  fs[c].parent = d => fs[c].name # node.name
            /\ fs' = Append(fs, node)
    /\ UNCHANGED <<returned, validator, file_paths, file_result, batch_result,
                   max_file_size, pc, project_result, config_result, stack,
                   projects, classified, content, cargo_version, config_version>>

\* find_adk_projects(root): the first call search_directory(root, .., 3, 0).
StartSearch ==
    /\ pc = "build"
    /\ pc' = "search"
    /\ stack' = <<[dir |-> RootPath, depth |-> 0, next |-> 0]>>
    /\ UNCHANGED <<returned, validator, file_paths, file_result, batch_result,
                   fs, max_file_size, project_result, config_result, projects,
                   classified, content, cargo_version, config_version>>

Top == stack[Len(stack)]

Pop == SubSeq(stack, 1, Len(stack) - 1)

\* current_depth >= max_depth: return Ok(()) before anything is looked at.
SearchDepthLimit ==
    /\ pc = "search" /\ stack # <<>> /\ Top.next = 0
    /\ depth_limit_reached(Top.depth, search_max_depth)
    /\ stack' = Pop
    /\ UNCHANGED <<returned, validator, file_paths, file_result, batch_result,
                   fs, max_file_size, pc, project_result, config_result,
                   projects, classified, content, cargo_version, config_version>>

\* The state after the classification of Top.dir with outcome o.
Classify(o) ==
    /\ classified' = Append(classified, Top.dir)
    /\ projects' = IF o.record THEN Append(projects, o.info) ELSE projects
    /\ IF o.err
       THEN pc' = "failed" /\ stack' = <<>>
       ELSE /\ pc' = pc
            /\ stack' = IF o.descend
                        THEN [stack EXCEPT ![Len(stack)].next = 1]
                        ELSE Pop
    /\ UNCHANGED <<returned, validator, file_paths, file_result, batch_result,
                   fs, max_file_size, project_result, config_result, content,
                   cargo_version, config_version>>

AtCall ==
    /\ pc = "search" /\ stack # <<>> /\ Top.next = 0
    /\ ~depth_limit_reached(Top.depth, search_max_depth)

\* The directory is an ADK project: push it and return.
SearchRecord ==
    /\ AtCall
    /\ LET o == search_step(fs, Top.dir, max_file_size)
       IN  o.record /\ Classify(o)

\* Not a project (or detection failed) and read_dir succeeds: enter the loop.
SearchDescend ==
    /\ AtCall
    /\ can_read_dir(fs, Top.dir)
    /\ LET o == search_step(fs, Top.dir, max_file_size)
       IN  ~o.record /\ o.descend /\ Classify(o)

\* Not a project (or detection failed) and read_dir fails: return Ok(()).
SearchUnreadable ==
    /\ AtCall
    /\ ~can_read_dir(fs, Top.dir)
    /\ LET o == search_step(fs, Top.dir, max_file_size)
       IN  ~o.record /\ ~o.descend /\ Classify(o)

InLoop ==
    /\ pc = "search" /\ stack # <<>> /\ Top.next >= 1
    /\ Top.next <= Len(Children(fs, Top.dir))

Entry == Top.dir \o <<Children(fs, Top.dir)[Top.next]>>

\* The entry is no directory, or has a skipped name: next entry.
SearchSkipEntry ==
    /\ InLoop
    /\ ~search_recurses(fs, Entry)
    /\ stack' = [stack EXCEPT ![Len(stack)].next = @ + 1]
    /\ UNCHANGED <<returned, validator, file_paths, file_result, batch_result,
                   fs, max_file_size, pc, project_result, config_result,
                   projects, classified, content, cargo_version, config_version>>

\* search_directory(entry, .., current_depth + 1)
SearchRecurse ==
    /\ InLoop
    /\ search_recurses(fs, Entry)
    /\ stack' = Append([stack EXCEPT ![Len(stack)].next = @ + 1],
                       [dir |-> Entry, depth |-> Top.depth + 1, next |-> 0])
    /\ UNCHANGED <<returned, validator, file_paths, file_result, batch_result,
                   fs, max_file_size, pc, project_result, config_result,
                   projects, classified, content, cargo_version, config_version>>

\* The loop is over: return Ok(()).
SearchReturn ==
    /\ pc = "search" /\ stack # <<>> /\ Top.next >= 1
    /\ Top.next > Len(Children(fs, Top.dir))
    /\ stack' = Pop
    /\ UNCHANGED <<returned, validator, file_paths, file_result, batch_result,
                   fs, max_file_size, pc, project_result, config_result,
                   projects, classified, content, cargo_version, config_version>>

\* The outermost call returned: find_adk_projects returns Ok(projects).
SearchDone ==
    /\ pc = "search" /\ stack = <<>>
    /\ pc' = "done"
    /\ UNCHANGED <<returned, validator, file_paths, file_result, batch_result,
                   fs, max_file_size, project_result, config_result, stack,
                   projects, classified, content, cargo_version, config_version>>

NextFind ==
    \/ AddNode
    \/ StartSearch
    \/ SearchDepthLimit
    \/ SearchRecord
    \/ SearchDescend
    \/ SearchUnreadable
    \/ SearchSkipEntry
    \/ SearchRecurse
    \/ SearchReturn
    \/ SearchDone

SpecFind == InitFind /\ [][NextFind]_vars

\* The classification at the head of a call, whatever its outcome: the step
\* of SearchRecord, SearchDescend or SearchUnreadable.
SearchCall ==
    /\ AtCall
    /\ classified' = Append(classified, Top.dir)

\* A step of find_adk_projects other than a classification.
SearchStep ==
    \/ StartSearch
    \/ SearchDepthLimit
    \/ SearchSkipEntry
    \/ SearchRecurse
    \/ SearchReturn
    \/ SearchDone

\* search_directory is sequential code: a call that can take a step takes it.
SpecFindFair ==
    SpecFind /\ WF_vars(SearchStep) /\ WF_classified(SearchCall)


(***************************************************************************)
(* Properties of detect_adk_project and detect_adk_config (SpecDetect).    *)
(***************************************************************************)
ProjectReturned == project_result # <<>> /\ project_result[1].ok

ConfigReturned == config_result # <<>> /\ config_result[1].ok

RootHas(name) == name \in DOMAIN fs[1].files

\* The text of the root's Cargo.toml holds the marker (FALSE if unreadable).
CargoHolds(marker) ==
    /\ RootHas("Cargo.toml")
    /\ fs[1].files["Cargo.toml"].readable
    /\ Contains(fs[1].files["Cargo.toml"].content, marker)

\* No manifest, no ADK configuration file and no ADK directory under the root.
BareRoot ==
    /\ DOMAIN fs[1].files \subseteq {"setup.py"}
    /\ \A n \in 2..Len(fs) : fs[n].name \notin {"adk_agents", "src"}

\* C1: a successful detect_adk_project follows the decision table: the type
\* is None exactly when neither ADK dependencies nor ADK configuration were
\* found; otherwise Mixed with both manifests, PythonAdk with requirements.txt
\* alone or with no manifest, RustAdk or McpAdkServer with Cargo.toml alone;
\* and a root without manifest, ADK config file and ADK directory yields None
\* with both flags false.
C1_DecisionTable ==
    ProjectReturned =>
        LET info    == project_result[1].info
            has_adk == info.has_adk_dependencies \/ info.has_adk_config
            cargo   == RootHas("Cargo.toml")
            req     == RootHas("requirements.txt")
        IN  /\ (info.project_type = "None") <=> ~has_adk
            /\ has_adk /\ cargo /\ req => info.project_type = "Mixed"
            /\ has_adk /\ ~cargo => info.project_type = "PythonAdk"
            /\ has_adk /\ cargo /\ ~req =>
                   info.project_type \in {"RustAdk", "McpAdkServer"}
            /\ BareRoot =>
                   /\ info.project_type = "None"
                   /\ ~info.has_adk_dependencies
                   /\ ~info.has_adk_config

\* C1 witness: a root with ADK configuration and no manifest was classified
\* PythonAdk.
C1_Witness ==
    /\ ProjectReturned
    /\ ~RootHas("Cargo.toml") /\ ~RootHas("requirements.txt")
    /\ project_result[1].info.has_adk_config
    /\ project_result[1].info.project_type = "PythonAdk"

\* C2 as claimed: with a (readable) Cargo.toml and no requirements.txt the
\* result is McpAdkServer if the Cargo.toml holds an MCP marker and RustAdk
\* if not.
C2_McpOrRust ==
    ProjectReturned /\ CargoHolds("") /\ ~RootHas("requirements.txt") =>
        project_result[1].info.project_type =
            IF CargoHolds("rmcp") \/ CargoHolds("mcp")
            THEN "McpAdkServer" ELSE "RustAdk"

\* C2 amended: the same, for the roots in which ADK dependencies or ADK
\* configuration were found; for the others the result is None either way.
C2_McpOrRustWhenAdk ==
    ProjectReturned /\ CargoHolds("") /\ ~RootHas("requirements.txt") =>
        LET info    == project_result[1].info
            has_adk == info.has_adk_dependencies \/ info.has_adk_config
        IN  info.project_type =
                IF ~has_adk THEN "None"
                ELSE IF CargoHolds("rmcp") \/ CargoHolds("mcp")
                THEN "McpAdkServer" ELSE "RustAdk"

\* C2 witness: a Cargo.toml whose only MCP marker is "mcp", in a root with
\* ADK configuration, was classified McpAdkServer.
C2_Witness ==
    /\ ProjectReturned
    /\ RootHas("Cargo.toml") /\ ~RootHas("requirements.txt")
    /\ CargoHolds("mcp") /\ ~CargoHolds("rmcp")
    /\ project_result[1].info.project_type = "McpAdkServer"

\* The root of the end-to-end scenario, with the given Cargo.toml.
ScenarioRoot(cargo_text) ==
    <<DirNode(0, "root", TRUE,
              MkFiles(Some(TextFile(cargo_text)), None, None,
                      Some(TextFile(EnvAdk))))>>

\* What both detectors report for the scenario, but for the version.
ScenarioFlags ==
    /\ project_result # <<>> =>
          /\ project_result[1].ok
          /\ project_result[1].info.project_type = "RustAdk"
    /\ config_result # <<>> =>
          /\ config_result[1].ok
          /\ config_result[1].info.has_adk_config
          /\ config_result[1].info.google_api_configured

ScenarioVersion(v) ==
    /\ project_result # <<>> => project_result[1].info.adk_version = v
    /\ config_result # <<>> => config_result[1].info.adk_version = v

\* C3 as claimed: with google-adk = "1.0.0" in Cargo.toml and the two keys in
\* .env, the type is RustAdk, has_adk_config and google_api_configured are
\* true and the extracted version is "1.0.0".
C3_PlainFormVersion ==
    fs = ScenarioRoot(CargoPlain) => ScenarioFlags /\ ScenarioVersion(Some("1.0.0"))

\* C3 amended: type and flags are as claimed, but no version is extracted
\* from the plain-string form; "1.0.0" is extracted from the table form
\* google-adk = { version = "1.0.0" }.
C3_EndToEnd ==
    /\ fs = ScenarioRoot(CargoPlain) => ScenarioFlags /\ ScenarioVersion(None)
    /\ fs = ScenarioRoot(CargoTable) =>
          ScenarioFlags /\ ScenarioVersion(Some("1.0.0"))

\* C3 witness: both detectors have run on the plain-string scenario.
C3_Witness ==
    /\ fs = ScenarioRoot(CargoPlain)
    /\ project_result # <<>>
    /\ config_result # <<>>

\* C8 as claimed: detect_adk_project fails exactly when the root itself
\* cannot be listed.
C8_FailsOnlyOnRoot ==
    project_result # <<>> =>
        (project_result[1].ok <=> can_read_dir(fs, RootPath))

\* C9 as claimed: detect_adk_config returns a ConfigInfo with one record per
\* discovered file whatever files cannot be read.
C9_ConfigSurvivesUnreadable ==
    config_result # <<>> =>
        /\ config_result[1].ok
        /\ Len(config_result[1].info.config_files)
              = Len(find_config_files(fs, RootPath))

(***************************************************************************)
(* Properties of the version extractors (SpecExtract).                     *)
(***************************************************************************)
\* C4 as claimed, in its two consequences: every version an extractor
\* returns begins with a digit, and both extractors return the same value
\* for the same text.
C4_SameRule ==
    /\ \A r \in {cargo_version, config_version} :
          r # <<>> /\ r[1] # None =>
              r[1][1] # "" /\ is_numeric(SubSeq(r[1][1], 1, 1))
    /\ cargo_version # <<>> /\ config_version # <<>> =>
          cargo_version[1] = config_version[1]


(***************************************************************************)
(* Properties of find_adk_projects (SpecFind, SpecFindFair).               *)
(***************************************************************************)
ProperPrefix(a, b) == Len(a) < Len(b) /\ SubSeq(b, 1, Len(a)) = a

Recorded(p) == \E i \in DOMAIN projects : projects[i].root_path = p

WasClassified(p) == \E i \in DOMAIN classified : classified[i] = p

\* The root holds nothing of its own and exactly three directories, two of
\* them ADK projects and one unrelated.
TwoProjectsAndOneOther ==
    /\ Len(fs) = 4
    /\ fs[1].kind = "dir" /\ fs[1].listable /\ fs[1].files = NoFiles
    /\ \A n \in 2..4 :
          /\ fs[n].parent = 1 /\ fs[n].kind = "dir" /\ fs[n].listable
          /\ ~is_skipped_name(fs[n].name)
    /\ Cardinality({n \in 2..4 : fs[n].files = RustFiles}) = 2
    /\ Cardinality({n \in 2..4 : fs[n].files = NoFiles}) = 1

\* C5: no entry of the result has type None, no entry lies beneath another
\* entry, nothing beneath a recorded project is ever classified or entered,
\* and two ADK subdirectories next to an unrelated one give two entries.
C5_ProjectsAreLeaves ==
    /\ \A i \in DOMAIN projects :
          /\ projects[i].project_type # "None"
          /\ \A j \in DOMAIN projects :
                ~ProperPrefix(projects[i].root_path, projects[j].root_path)
          /\ \A c \in DOMAIN classified :
                ~ProperPrefix(projects[i].root_path, classified[c])
          /\ \A k \in DOMAIN stack :
                ~ProperPrefix(projects[i].root_path, stack[k].dir)
    /\ pc = "done" /\ TwoProjectsAndOneOther => Len(projects) = 2

\* C5 witness: the search is over and a recorded project holds a directory
\* that is itself marked as an ADK project.
C5_Witness ==
    /\ pc = "done"
    /\ \E i \in DOMAIN projects : \E n \in 2..Len(fs) :
          /\ fs[n].parent = Resolve(fs, projects[i].root_path)
          /\ fs[n].kind = "dir" /\ fs[n].listable
          /\ fs[n].files = RustFiles
          /\ ~is_skipped_name(fs[n].name)

\* No entry below the root on the path has a skipped name.
NoSkippedName(p) == \A i \in 2..Len(p) : ~is_skipped_name(fs[p[i]].name)

C6_Bounds ==
    /\ \A c \in DOMAIN classified :
          Len(classified[c]) - 1 \in {0, 1, 2} /\ NoSkippedName(classified[c])
    /\ \A i \in DOMAIN projects : Len(projects[i].root_path) - 1 \in {0, 1, 2}
    /\ \A k \in DOMAIN stack : NoSkippedName(stack[k].dir)

\* C6: the search ends, only directories at depth 0, 1 or 2 are classified
\* or reported, and no entry named target, node_modules, .git, __pycache__
\* or .venv is entered.
C6_BoundedSearch == [](C6_Bounds) /\ <>(pc = "done")

\* C6 witness: the search is over on a tree with a directory at depth 3
\* whose ancestors were all searched, and that directory was not classified.
C6_Witness ==
    /\ pc = "done"
    /\ \E p \in {<<1, a, b, c>> : a, b, c \in 2..Len(fs)} :
          /\ \A i \in 2..4 : fs[p[i]].parent = p[i - 1] /\ fs[p[i]].kind = "dir"
          /\ WasClassified(SubSeq(p, 1, 3)) /\ ~Recorded(SubSeq(p, 1, 3))
          /\ fs[p[3]].listable
          /\ ~WasClassified(p)

\* C7: find_adk_projects never fails; the entries of every directory that
\* was searched and not recorded are all searched, whatever failed on their
\* siblings, and every directory classified as an ADK project is reported.
C7_ErrorsAreSkipped ==
    /\ pc # "failed"
    /\ pc = "done" =>
          \A c \in DOMAIN classified :
             LET p == classified[c]
                 r == detect_adk_project(fs, p, max_file_size)
                 kids == Children(fs, p)
             IN  /\ r.ok /\ r.info.project_type # "None" => Recorded(p)
                 /\ ~Recorded(p) /\ can_read_dir(fs, p) /\ Len(p) < 3 =>
                       \A k \in DOMAIN kids :
                          LET q == p \o <<kids[k]>>
                          IN  is_dir(fs, q) /\ ~is_skipped_name(fs[kids[k]].name)
                                  => WasClassified(q)

\* C7 witness: the search is over; the detection of one directory failed and
\* a later sibling of it was recorded as a project.
C7_Witness ==
    /\ pc = "done"
    /\ \E i, j \in DOMAIN classified :
          /\ i < j
          /\ Len(classified[i]) = Len(classified[j])
          /\ Len(classified[i]) > 1
          /\ SubSeq(classified[i], 1, Len(classified[i]) - 1)
                = SubSeq(classified[j], 1, Len(classified[j]) - 1)
          /\ ~detect_adk_project(fs, classified[i], max_file_size).ok
          /\ Recorded(classified[j])

\* C10 as claimed: neither walk goes through a symbolic link, and no
\* directory is visited twice.
C10_SymlinksNotFollowed ==
    LET through_link(p) == \E i \in 2..Len(p) : fs[p[i]].kind = "symlink"
        walked == estimate_project_size(fs, RootPath, max_file_size).dirs
    IN  /\ \A c \in DOMAIN classified : ~through_link(classified[c])
        /\ \A c, d \in DOMAIN classified :
              c # d => Resolve(fs, classified[c]) # Resolve(fs, classified[d])
        /\ pc = "done" => \A w \in DOMAIN walked : ~through_link(walked[w])


(***************************************************************************)
(* The size walk of detect_adk_project under a small cap (SpecSize): a     *)
(* tree of directories, sized files and symbolic links is grown, then      *)
(* detect_adk_project is called on its root.                               *)
(***************************************************************************)
MaxFileBytes == 2

\* The caps the detector is constructed with: AdkProjectDetector::new(cap).
SizeCaps == {1, 3, default_max_file_size}

\* A regular file of the given size that is not a manifest.
SizedFile(bytes) == [readable |-> TRUE, content |-> "", size |-> bytes]

\* The nodes that may be added as node n under directory d.
SizedNodes(f, d, n) ==
    {DirNode(d, NodeNames[n], TRUE, NoFiles),
     DirNode(d, NodeNames[n], FALSE, NoFiles),
     DirNode(d, "node_modules", TRUE, NoFiles),
     SymlinkNode(d, NodeNames[n], 1)}
    \cup {FileNode(d, NodeNames[n], SizedFile(b)) : b \in 1..MaxFileBytes}

InitSize ==
    /\ returned = <<>>
    /\ fs = <<DirNode(0, "root", TRUE, NoFiles)>>
    /\ max_file_size \in SizeCaps
    /\ pc = "grow"
    /\ project_result = <<>>
    /\ config_result = <<>>
    /\ Idle
    /\ NoValidation

\* The environment creates one more entry before the call. Entries are
\* added to listable directories only; those of a skipped directory are
\* never seen by the walk but belong to the tree.
AddSizedNode ==
    /\ pc = "grow"
    /\ Len(fs) < MaxNodes
    /\ Len(fs) < Len(NodeNames)
    /\ \E d \in {x \in 1..Len(fs) : fs[x].kind = "dir" /\ fs[x].listable} :
         \E node \in SizedNodes(fs, d, Len(fs) + 1) :
            /\ \A c \in 1..Len(fs) :
                  fs[c].parent = d => fs[c].name # node.name
            /\ fs' = Append(fs, node)
    /\ UNCHANGED <<returned, max_file_size, pc, project_result, config_result,
                   stack,
                   projects, classified, content, cargo_version,
                   config_version, validator, file_paths, file_result,
                   batch_result>>

\* A caller runs detect_adk_project on the root; estimated_size is the
\* total of estimate_project_size.
EstimateSize ==
    /\ pc = "grow"
    /\ pc' = "sized"
    /\ project_result' = <<detect_adk_project(fs, RootPath, max_file_size)>>
    /\ UNCHANGED <<returned, fs, max_file_size, config_result, stack, projects,
                   classified, content, cargo_version, config_version,
                   validator, file_paths, file_result, batch_result>>

NextSize == AddSizedNode \/ EstimateSize

SpecSize == InitSize /\ [][NextSize]_vars

(***************************************************************************)
(* Properties of the size estimate (SpecSize).                             *)
(***************************************************************************)
\* Node n lies under the root with no deny-listed directory and no symbolic
\* link above it.
RECURSIVE UnderRoot(_)
UnderRoot(n) ==
    IF n = 1 THEN TRUE
    ELSE LET d == fs[n].parent
         IN  /\ fs[d].kind = "dir"
             /\ d = 1 \/ ~is_skipped_name(fs[d].name)
             /\ UnderRoot(d)

RECURSIVE SumSizes(_, _)
SumSizes(sizes, todo) ==
    IF todo = {} THEN 0
    ELSE LET x == CHOOSE y \in todo : TRUE
         IN  sizes[x] + SumSizes(sizes, todo \ {x})

\* The bytes node n holds: a file's size, a directory's manifest files.
OwnBytes(n) ==
    IF fs[n].kind = "file" THEN fs[n].size
    ELSE IF fs[n].kind = "dir"
    THEN SumSizes([m \in DOMAIN fs[n].files |-> fs[n].files[m].size],
                  DOMAIN fs[n].files)
    ELSE 0

\* The total byte size of all files under the root outside deny-listed
\* directories.
TrueTotal ==
    SumSizes([n \in 1..Len(fs) |-> IF UnderRoot(n) THEN OwnBytes(n) ELSE 0],
             1..Len(fs))

SizeReturned ==
    pc = "sized" /\ project_result # <<>> /\ project_result[1].ok

\* C11 as claimed: estimated_size never exceeds the true total, and equals
\* it whenever the true total, or the returned value, is at most the cap.
C11_ExactBelowCap ==
    SizeReturned =>
        LET est == project_result[1].info.estimated_size
        IN  /\ est <= TrueTotal
            /\ TrueTotal <= max_file_size => est = TrueTotal
            /\ est <= max_file_size => est = TrueTotal

\* C12 as claimed, on trees without symbolic links: once the running total
\* has exceeded the cap, the walk adds no further file.
C12_NoAddAfterCap ==
    SizeReturned /\ (\A n \in 1..Len(fs) : fs[n].kind # "symlink") =>
        LET adds == estimate_project_size(fs, RootPath, max_file_size).adds
        IN  \A i \in 1..Len(adds) :
               i > 1 => adds[i - 1] <= max_file_size


(***************************************************************************)
(* FileValidator (file_validator.rs). A path handed to the validator is a  *)
(* record [path, kind, size]: the path string, what the file system holds  *)
(* there and, for a regular file, its length. kind is "missing", "dir",    *)
(* "file", or "vanished" for a regular file that is removed after the      *)
(* is_file test, so that fs::metadata fails.                               *)
(***************************************************************************)
MaxPaths == 2

default_excluded_patterns ==
    <<"target/**", "build/**", "dist/**", "node_modules/**", ".venv/**",
      "__pycache__/**", ".git/**", ".svn/**", ".vscode/**", ".idea/**",
      "*.tmp", "*.temp", "*.log", "*.bak">>

\* FileValidator::default()
default_validator ==
    [max_file_size |-> 50 * 1024 * 1024,
     min_file_size |-> 1,
     allowed_extensions |->
        <<"rs", "py", "pyi", "toml", "json", "yaml", "yml", "md", "rst",
          "txt">>,
     excluded_patterns |-> default_excluded_patterns]

\* FileValidator::for_code_review()
for_code_review ==
    [default_validator EXCEPT !.max_file_size = 1024 * 1024,
                              !.min_file_size = 10,
                              !.allowed_extensions = <<"rs", "py">>]

\* FileValidator::for_config_files()
for_config_files ==
    [default_validator EXCEPT !.max_file_size = 10 * 1024,
                              !.min_file_size = 1,
                              !.allowed_extensions =
                                  <<"toml", "json", "yaml", "yml">>]

\* str::ends_with(pat)
EndsWith(s, pat) ==
    Len(s) >= Len(pat) /\ SubSeq(s, Len(s) - Len(pat) + 1, Len(s)) = pat

\* Path::file_name: the last component of the path
RECURSIVE path_file_name(_)
path_file_name(path) ==
    LET slash == Find(path, "/")
    IN  IF slash = None THEN path
        ELSE path_file_name(SliceFrom(path, slash[1] + 1))

\* Path::extension
path_extension(path) == extension(path_file_name(path))

\* format!("{}", n) for an unsigned integer
RECURSIVE Decimal(_)
Decimal(n) ==
    LET digit == SubSeq("0123456789", (n % 10) + 1, (n % 10) + 1)
    IN  IF n < 10 THEN digit ELSE Decimal(n \div 10) \o digit

determine_file_type(path) ==
    LET filename == path_file_name(path)
        ext == path_extension(path)
    IN  IF filename \in {"Cargo.toml", "Cargo.lock", "requirements.txt",
                         "setup.py", "pyproject.toml"}
        THEN "Build"
        ELSE IF filename \in {".env", ".env.template", ".env.local",
                              ".env.production"}
        THEN "Environment"
        ELSE IF filename \in {"README.md", "CHANGELOG.md", "LICENSE",
                              "CONTRIBUTING.md"}
        THEN "Documentation"
        ELSE IF ext = None THEN "Unknown"
        ELSE LET e == to_lowercase(ext[1])
             IN  IF e = "rs" THEN "Rust"
                 ELSE IF e \in {"py", "pyi"} THEN "Python"
                 ELSE IF e \in {"toml", "json", "yaml", "yml"} THEN "Config"
                 ELSE IF e \in {"md", "rst", "txt"} THEN "Documentation"
                 ELSE "Unknown"

is_allowed_file_type_by_default_list(v, path) ==
    LET filename == path_file_name(path)
        ext == path_extension(path)
    IN  IF filename \in {"Cargo.toml", "requirements.txt", "setup.py", ".env",
                         ".env.template"}
        THEN TRUE
        ELSE IF ext = None THEN FALSE
        ELSE in_list(default_validator.allowed_extensions,
                     to_lowercase(ext[1]))

is_allowed_file_type(v, path) ==
    LET filename == path_file_name(path)
        ext == path_extension(path)
    IN  IF filename \in {"Cargo.toml", "requirements.txt", "setup.py", ".env",
                         ".env.template"}
        THEN TRUE
        ELSE IF ext = None THEN FALSE
        ELSE in_list(v.allowed_extensions, to_lowercase(ext[1]))

\* if pattern.contains("**") { path.contains(pattern.split("**").next()) }
\* else if pattern.starts_with("*.") { path.ends_with(&pattern[2..]) }
\* else { path.contains(pattern) }
matches_pattern(path, pattern) ==
    IF Contains(pattern, "**")
    THEN Contains(path, Slice(pattern, 0, Find(pattern, "**")[1]))
    ELSE IF StartsWith(pattern, "*.")
    THEN EndsWith(path, SliceFrom(pattern, 2))
    ELSE Contains(path, pattern)

is_excluded_file(v, path) ==
    \E i \in DOMAIN v.excluded_patterns :
        matches_pattern(path, v.excluded_patterns[i])

\* Result<T>: Ok(value) or Err(message)
Ok(value) == [ok |-> TRUE, value |-> value]

Err(message) == [ok |-> FALSE, value |-> message]

FileValidationResult(path, is_valid, file_size, file_type, reason) ==
    [path |-> path, is_valid |-> is_valid, file_size |-> file_size,
     file_type |-> file_type, reason |-> reason]

missing_result_as_error(path) == Err("File does not exist")

\* The return of validate_file for a path where nothing exists.
missing_result(path) ==
    Ok(FileValidationResult(path, FALSE, 0, "Unknown",
                            Some("File does not exist")))

too_small_or_equal(v, file_size) == file_size <= v.min_file_size

\* file_size < self.min_file_size
too_small(v, file_size) == file_size < v.min_file_size

type_not_allowed_without_reason(path, file_size, file_type) ==
    Ok(FileValidationResult(path, FALSE, file_size, file_type, None))

\* The return of validate_file for a file type that is not allowed.
type_not_allowed_result(path, file_size, file_type) ==
    Ok(FileValidationResult(path, FALSE, file_size, file_type,
                            Some("File type not allowed")))

validate_file_size_first(v, file) ==
    LET path == file.path
        file_size == file.size
        file_type == determine_file_type(path)
    IN  IF file.kind = "missing" THEN missing_result(path)
        ELSE IF file.kind = "dir"
        THEN Ok(FileValidationResult(path, FALSE, 0, "Unknown",
                                     Some("Path is not a file")))
        ELSE IF file.kind = "vanished"
        THEN Err("Failed to get metadata for \"" \o path \o "\"")
        ELSE IF too_small(v, file_size)
        THEN Ok(FileValidationResult(path, FALSE, file_size, file_type,
                Some("File too small: " \o Decimal(file_size) \o " bytes")))
        ELSE IF file_size > v.max_file_size
        THEN Ok(FileValidationResult(path, FALSE, file_size, file_type,
                Some("File too large: " \o Decimal(file_size)
                     \o " bytes (max: " \o Decimal(v.max_file_size) \o ")")))
        ELSE IF is_excluded_file(v, path)
        THEN Ok(FileValidationResult(path, FALSE, file_size, file_type,
                                     Some("File matches excluded pattern")))
        ELSE IF ~is_allowed_file_type(v, path)
        THEN type_not_allowed_result(path, file_size, file_type)
        ELSE Ok(FileValidationResult(path, TRUE, file_size, file_type, None))

validate_file(v, file) ==
    LET path == file.path
        file_size == file.size                      \* metadata.len()
        file_type == determine_file_type(path)
    IN  IF file.kind = "missing" THEN missing_result(path)
        ELSE IF file.kind = "dir"
        THEN Ok(FileValidationResult(path, FALSE, 0, "Unknown",
                                     Some("Path is not a file")))
        ELSE IF file.kind = "vanished"               \* fs::metadata(..)?
        THEN Err("Failed to get metadata for \"" \o path \o "\"")
        ELSE IF is_excluded_file(v, path)
        THEN Ok(FileValidationResult(path, FALSE, file_size, file_type,
                                     Some("File matches excluded pattern")))
        ELSE IF too_small(v, file_size)
        THEN Ok(FileValidationResult(path, FALSE, file_size, file_type,
                Some("File too small: " \o Decimal(file_size) \o " bytes")))
        ELSE IF file_size > v.max_file_size
        THEN Ok(FileValidationResult(path, FALSE, file_size, file_type,
                Some("File too large: " \o Decimal(file_size)
                     \o " bytes (max: " \o Decimal(v.max_file_size) \o ")")))
        ELSE IF ~is_allowed_file_type(v, path)
        THEN type_not_allowed_result(path, file_size, file_type)
        ELSE Ok(FileValidationResult(path, TRUE, file_size, file_type, None))

\* The result validate_files pushes for one path.
batch_entry(v, file) ==
    LET r == validate_file(v, file)
    IN  IF r.ok THEN r.value
        ELSE FileValidationResult(file.path, FALSE, 0, "Unknown",
                                  Some("Validation error: " \o r.value))

RECURSIVE validate_files_until_error(_, _)
validate_files_until_error(v, files) ==
    IF files = <<>> THEN Ok(<<>>)
    ELSE LET r == validate_file(v, files[1])
             rest == validate_files_until_error(v, Tail(files))
         IN  IF ~r.ok THEN Err(r.value)
             ELSE IF ~rest.ok THEN rest
             ELSE Ok(<<r.value>> \o rest.value)

RECURSIVE validate_files(_, _)
validate_files(v, files) ==
    IF files = <<>> THEN Ok(<<>>)
    ELSE Ok(<<batch_entry(v, files[1])>> \o validate_files(v, Tail(files)).value)

(***************************************************************************)
(* Calls of the validator (SpecValidate).                                  *)
(***************************************************************************)
ValidatorPresets == {default_validator, for_code_review, for_config_files}

\* Paths tried with every length of SizesFor.
SizedPathChoices == {"src/main.rs", "target/debug/main.rs"}

\* Paths tried with one length that lies within the bounds.
PathChoices ==
    {"Cargo.toml", "logs/catalog", "notes.tmp", "data.bin", "docs/guide.md"}

\* File lengths around the validator's bounds.
SizesFor(v) ==
    {v.min_file_size - 1, v.min_file_size, v.max_file_size,
     v.max_file_size + 1}

\* What may be handed to the validator.
Candidates(v) ==
    {[path |-> p, kind |-> "file", size |-> z] :
        p \in SizedPathChoices, z \in SizesFor(v)}
    \cup {[path |-> p, kind |-> "file", size |-> v.min_file_size] :
             p \in PathChoices}
    \cup {[path |-> "src/gone.rs", kind |-> "missing", size |-> 0],
          [path |-> "src", kind |-> "dir", size |-> 0],
          [path |-> "src/lib.rs", kind |-> "vanished", size |-> 0]}

InitValidate ==
    /\ returned = <<>>
    /\ validator \in ValidatorPresets
    /\ file_paths \in UNION {[1..n -> Candidates(validator)] : n \in 1..MaxPaths}
    /\ file_result = <<>>
    /\ batch_result = <<>>
    /\ fs = <<MissingNode>>
    /\ max_file_size = default_max_file_size
    /\ pc = "ready"
    /\ project_result = <<>>
    /\ config_result = <<>>
    /\ Idle

\* A caller runs validate_file on the first path.
ValidateFile ==
    /\ file_result = <<>>
    /\ file_result' = <<validate_file(validator, file_paths[1])>>
    /\ UNCHANGED <<returned, fs, max_file_size, pc, project_result,
                   config_result, stack,
                   projects, classified, content, cargo_version,
                   config_version, validator, file_paths, batch_result>>

\* A caller runs validate_files on all the paths.
ValidateFiles ==
    /\ batch_result = <<>>
    /\ batch_result' = <<validate_files(validator, file_paths)>>
    /\ UNCHANGED <<returned, fs, max_file_size, pc, project_result,
                   config_result, stack,
                   projects, classified, content, cargo_version,
                   config_version, validator, file_paths, file_result>>

NextValidate == ValidateFile \/ ValidateFiles

SpecValidate == InitValidate /\ [][NextValidate]_vars

(***************************************************************************)
(* Properties of the validator (SpecValidate).                             *)
(***************************************************************************)
FileReturned == file_result # <<>> /\ file_result[1].ok

\* Every FileValidationResult the calls have produced.
ProducedResults ==
    (IF FileReturned THEN {file_result[1].value} ELSE {})
    \cup (IF batch_result # <<>> /\ batch_result[1].ok
          THEN {batch_result[1].value[i] : i \in DOMAIN batch_result[1].value}
          ELSE {})

\* C13: an invalid result carries a non-empty reason and a valid result
\* carries none, for validate_file and for every entry of validate_files.
C13_ReasonIffInvalid ==
    \A r \in ProducedResults :
        /\ ~r.is_valid => r.reason # None /\ r.reason[1] # ""
        /\ r.is_valid => r.reason = None

\* C13 witness: validate_files returned a valid entry, an entry rejected by
\* a check and an entry made from an error.
C13_Witness ==
    /\ batch_result # <<>>
    /\ \E i, j \in DOMAIN batch_result[1].value :
          /\ batch_result[1].value[i].is_valid
          /\ ~batch_result[1].value[j].is_valid
    /\ FileReturned /\ file_result[1].value.reason = Some("File type not allowed")

\* The reason the order existence, is-regular-file, exclusion pattern,
\* minimum size, maximum size, allowed type gives for a file.
FirstFailingCheck(v, file) ==
    IF file.kind = "missing" THEN "File does not exist"
    ELSE IF file.kind = "dir" THEN "Path is not a file"
    ELSE IF is_excluded_file(v, file.path) THEN "File matches excluded pattern"
    ELSE IF file.size < v.min_file_size THEN "File too small"
    ELSE IF file.size > v.max_file_size THEN "File too large"
    ELSE IF ~is_allowed_file_type(v, file.path) THEN "File type not allowed"
    ELSE ""

\* C14: the reason validate_file reports is that of the first failing check
\* in the fixed order; an excluded file outside the size bounds is reported
\* as excluded.
C14_FirstFailingCheckWins ==
    FileReturned =>
        LET r == file_result[1].value
            first == FirstFailingCheck(validator, file_paths[1])
        IN  IF first = "" THEN r.is_valid /\ r.reason = None
            ELSE ~r.is_valid /\ r.reason # None /\ StartsWith(r.reason[1], first)

\* C14 witness: validate_file returned for a file that matches an excluded
\* pattern and is larger than the maximum.
C14_Witness ==
    /\ FileReturned
    /\ file_paths[1].kind = "file"
    /\ is_excluded_file(validator, file_paths[1].path)
    /\ file_paths[1].size > validator.max_file_size
    /\ file_result[1].value.reason = Some("File matches excluded pattern")

\* The file is a regular file within the size bounds (inclusive) whose
\* extension is in the allowed list.
InBoundsAndAllowed(v, file) ==
    /\ file.kind = "file"
    /\ v.min_file_size <= file.size /\ file.size <= v.max_file_size
    /\ path_extension(file.path) # None
    /\ in_list(v.allowed_extensions, path_extension(file.path)[1])

\* C15 as claimed: every regular file within the size bounds with an allowed
\* extension is valid.
C15_InBoundsAllowedValid ==
    FileReturned /\ InBoundsAndAllowed(validator, file_paths[1]) =>
        file_result[1].value.is_valid

\* C15 amended: every regular file within the size bounds with an allowed
\* extension whose path matches no exclusion pattern is valid.
C15_InBoundsAllowedUnexcludedValid ==
    /\ FileReturned
    /\ InBoundsAndAllowed(validator, file_paths[1])
    /\ ~is_excluded_file(validator, file_paths[1].path)
    => file_result[1].value.is_valid

\* C15 witness: a file whose length is the minimum was found valid.
C15_Witness ==
    /\ FileReturned
    /\ InBoundsAndAllowed(validator, file_paths[1])
    /\ file_paths[1].size = validator.min_file_size
    /\ file_result[1].value.is_valid

\* C16: for a path that does not exist or is no regular file validate_file
\* returns Ok with is_valid false, file_size 0, type Unknown and the reason
\* "File does not exist" or "Path is not a file".
C16_NegativeResults ==
    file_result # <<>> /\ file_paths[1].kind \in {"missing", "dir"} =>
        /\ file_result[1].ok
        /\ file_result[1].value =
              FileValidationResult(file_paths[1].path, FALSE, 0, "Unknown",
                  Some(IF file_paths[1].kind = "missing"
                       THEN "File does not exist" ELSE "Path is not a file"))

\* C16 witness: validate_file returned for a path where nothing exists.
C16_Witness ==
    file_result # <<>> /\ file_paths[1].kind = "missing"

\* C17: validate_files returns Ok with one result per path, in order, each
\* with its path; a path whose validation fails gives an invalid result
\* with size 0, type Unknown and a reason starting "Validation error:", and
\* every other path gives the result of validate_file on it alone.
C17_BatchIsolation ==
    batch_result # <<>> =>
        /\ batch_result[1].ok
        /\ Len(batch_result[1].value) = Len(file_paths)
        /\ \A i \in DOMAIN file_paths :
              LET got == batch_result[1].value[i]
                  alone == validate_file(validator, file_paths[i])
              IN  /\ got.path = file_paths[i].path
                  /\ alone.ok => got = alone.value
                  /\ ~alone.ok =>
                        /\ ~got.is_valid
                        /\ got.file_size = 0
                        /\ got.file_type = "Unknown"
                        /\ got.reason # None
                        /\ StartsWith(got.reason[1], "Validation error:")

\* C17 witness: validate_files returned for a list in which a path whose
\* validation fails comes before a valid file.
C17_Witness ==
    /\ batch_result # <<>>
    /\ Len(file_paths) >= 2
    /\ ~validate_file(validator, file_paths[1]).ok
    /\ validate_file(validator, file_paths[2]).ok
    /\ validate_file(validator, file_paths[2]).value.is_valid

\* C18 as claimed: under the code-review preset only files with extension
\* rs or py are valid.
C18_OnlySourceExtensions ==
    FileReturned /\ validator = for_code_review
                 /\ file_result[1].value.is_valid =>
        path_extension(file_paths[1].path) \in {Some("rs"), Some("py")}

\* C18 amended: under the code-review preset a valid file has extension rs
\* or py (in any letter case) or is named Cargo.toml, requirements.txt,
\* setup.py, .env or .env.template.
C18_SourceOrSpecialName ==
    FileReturned /\ validator = for_code_review
                 /\ file_result[1].value.is_valid =>
        LET ext == path_extension(file_paths[1].path)
        IN  \/ ext # None /\ to_lowercase(ext[1]) \in {"rs", "py"}
            \/ path_file_name(file_paths[1].path) \in
                  {"Cargo.toml", "requirements.txt", "setup.py", ".env",
                   ".env.template"}

\* C18 witness: the code-review preset found a Cargo.toml valid.
C18_Witness ==
    /\ FileReturned
    /\ validator = for_code_review
    /\ file_paths[1].path = "Cargo.toml"
    /\ file_result[1].value.is_valid

\* The matching rule as claimed: dir/** by containment of dir/, *.ext by
\* the suffix .ext, anything else by containment.
ClaimedMatch(path, pattern) ==
    IF EndsWith(pattern, "/**")
    THEN Contains(path, Slice(pattern, 0, Len(pattern) - 2))
    ELSE IF StartsWith(pattern, "*.")
    THEN EndsWith(path, SliceFrom(pattern, 1))
    ELSE Contains(path, pattern)

\* C19 as claimed: a regular file is rejected as excluded exactly when some
\* pattern matches its path by the claimed rule.
C19_PatternRule ==
    FileReturned /\ file_paths[1].kind = "file" =>
        (file_result[1].value.reason = Some("File matches excluded pattern")
            <=> \E i \in DOMAIN validator.excluded_patterns :
                   ClaimedMatch(file_paths[1].path,
                                validator.excluded_patterns[i]))

(***************************************************************************)
(* The environment-variable allow-list (SpecDetect).                       *)
(***************************************************************************)
\* C20: every key of environment_variables is a member of adk_env_vars; the
\* keys DEBUG and SECRET_TOKEN of valid KEY=VALUE lines add no entry.
C20_OnlyAllowListedKeys ==
    ConfigReturned =>
        LET env == config_result[1].info.environment_variables
        IN  /\ \A k \in DOMAIN env : in_list(adk_env_vars, k)
            /\ "DEBUG" \notin DOMAIN env
            /\ "SECRET_TOKEN" \notin DOMAIN env

\* C20 witness: detect_adk_config returned for a root whose .env holds an
\* allow-listed key and another key, and the allow-listed one was stored.
C20_Witness ==
    /\ ConfigReturned
    /\ RootHas(".env")
    /\ fs[1].files[".env"] = TextFile(EnvMixed)
    /\ "GOOGLE_API_KEY" \in DOMAIN config_result[1].info.environment_variables
    /\ config_result[1].info.environment_variables["GOOGLE_API_KEY"] = "abc"

(***************************************************************************)
(* Properties of detect_adk_config over several files (SpecDetect).        *)
(***************************************************************************)
\* The files detect_adk_config discovers under the root, in discovery order.
Discovered == find_config_files(fs, RootPath)

\* What extract_adk_version yields for a discovered file.
VersionOf(ref) == extract_adk_version(RefState(fs, ref).content)

\* C21: the adk_version detect_adk_config returns is the version extracted
\* from the first discovered file, in discovery order, from which the
\* extraction succeeds; no file processed later changes it.
C21_FirstVersionWins ==
    ConfigReturned =>
        LET found == Discovered
        IN  config_result[1].info.adk_version
                = first_some([i \in DOMAIN found |-> VersionOf(found[i])], 1)

\* C21 witness: detect_adk_config returned for a root whose Cargo.toml and
\* pyproject.toml, discovered in this order, yield different versions.
C21_Witness ==
    /\ ConfigReturned
    /\ LET found == Discovered
       IN  \E i, j \in DOMAIN found :
              /\ i < j
              /\ found[i].name = "Cargo.toml"
              /\ found[j].name = "pyproject.toml"
              /\ VersionOf(found[i]) = Some("1.0.0")
              /\ VersionOf(found[j]) = Some("2.0.0")
    /\ config_result[1].info.adk_version = Some("1.0.0")

\* The sequence without the repetitions of an element met before.
RECURSIVE FirstOccurrences(_)
FirstOccurrences(seq) ==
    IF seq = <<>> THEN <<>>
    ELSE LET front == FirstOccurrences(SubSeq(seq, 1, Len(seq) - 1))
             x     == seq[Len(seq)]
         IN  IF \E i \in DOMAIN front : front[i] = x THEN front
             ELSE Append(front, x)

\* C23 as claimed: config_files holds exactly one record per discovered
\* file, no file twice, the files of the explicit list first and in list
\* order, then the files of the subdirectory scan.
C23_OneRecordPerFile ==
    ConfigReturned =>
        LET records == config_result[1].info.config_files
        IN  [i \in DOMAIN records |-> records[i].path]
                = FirstOccurrences(Discovered)

\* Some discovered file holds one of the MCP marker substrings.
SomeFileHasMcpMarker ==
    LET found == Discovered
    IN  \E i \in DOMAIN found :
            \E marker \in {"rmcp", "arkaft-mcp-google-adk", "mcpServers"} :
                Contains(RefState(fs, found[i]).content, marker)

\* C24 as claimed: mcp_server_configured is true whenever some discovered
\* file holds rmcp, arkaft-mcp-google-adk or mcpServers, an mcp.json whose
\* only marker is mcpServers included.
C24_McpMarkerSetsFlag ==
    ConfigReturned /\ SomeFileHasMcpMarker =>
        config_result[1].info.mcp_server_configured

\* Some record of the ConfigInfo has a detected_settings entry with the tag.
SomeRecordTagged(info, tag) ==
    \E i \in DOMAIN info.config_files :
        \E k \in DOMAIN info.config_files[i].detected_settings :
            StartsWith(info.config_files[i].detected_settings[k], tag \o ":")

\* C25: in the ConfigInfo detect_adk_config returns, a file has
\* contains_adk_settings iff its detected_settings is non-empty,
\* has_adk_config holds iff some file has contains_adk_settings,
\* google_api_configured (vertex_ai_configured) holds iff some file has an
\* entry tagged google: (vertex:), and without has_adk_config the version is
\* None, environment_variables is empty and the three flags are false.
C25_FlagsAreOrOverFiles ==
    ConfigReturned =>
        LET info == config_result[1].info
        IN  /\ \A i \in DOMAIN info.config_files :
                  info.config_files[i].contains_adk_settings
                      <=> info.config_files[i].detected_settings # <<>>
            /\ info.has_adk_config
                  <=> \E i \in DOMAIN info.config_files :
                         info.config_files[i].contains_adk_settings
            /\ info.google_api_configured <=> SomeRecordTagged(info, "google")
            /\ info.vertex_ai_configured <=> SomeRecordTagged(info, "vertex")
            /\ ~info.has_adk_config =>
                  /\ info.adk_version = None
                  /\ DOMAIN info.environment_variables = {}
                  /\ ~info.google_api_configured
                  /\ ~info.vertex_ai_configured
                  /\ ~info.mcp_server_configured

\* C25 witness: detect_adk_config returned for a root where one file has
\* google: and vertex: entries and another file has no ADK setting.
C25_Witness ==
    /\ ConfigReturned
    /\ SomeRecordTagged(config_result[1].info, "google")
    /\ SomeRecordTagged(config_result[1].info, "vertex")
    /\ \E i \in DOMAIN config_result[1].info.config_files :
          ~config_result[1].info.config_files[i].contains_adk_settings
    /\ config_result[1].info.google_api_configured
    /\ config_result[1].info.vertex_ai_configured

\* C25 witness of the empty case: detect_adk_config returned without
\* has_adk_config for a root that holds configuration files.
C25_WitnessNoAdk ==
    /\ ConfigReturned
    /\ ~config_result[1].info.has_adk_config
    /\ config_result[1].info.config_files # <<>>

\* The KEY=VALUE definitions of a text, top to bottom: the lines that are
\* neither empty nor comments and hold an equals sign.
RECURSIVE DefinitionsOf(_)
DefinitionsOf(ls) ==
    IF ls = <<>> THEN <<>>
    ELSE LET line == trim(ls[1])
             eq   == Find(line, "=")
         IN  (IF line = "" \/ StartsWith(line, "#") \/ eq = None THEN <<>>
              ELSE <<[key   |-> trim(Slice(line, 0, eq[1])),
                      value |-> trim(SliceFrom(line, eq[1] + 1))]>>)
             \o DefinitionsOf(Tail(ls))

\* The definitions of the discovered environment files in processing order.
EnvDefinitions ==
    LET found == Discovered
        of(i) ==
            IF determine_config_type(found[i].name) = "Environment"
            THEN DefinitionsOf(Lines(RefState(fs, found[i]).content))
            ELSE <<>>
    IN  concat_all([i \in DOMAIN found |-> of(i)], 1)

\* C30: for an allow-listed key defined in several environment files or on
\* several lines, environment_variables keeps the value of the last
\* definition in processing order (.env, .env.template, .env.local,
\* .env.production, .env.development, then the scanned subdirectories; top
\* to bottom within a file).
C30_LastDefinitionWins ==
    ConfigReturned =>
        LET defs == EnvDefinitions
            kept == config_result[1].info.environment_variables
        IN  \A i \in DOMAIN defs :
                /\ in_list(adk_env_vars, defs[i].key)
                /\ \A j \in DOMAIN defs : j > i => defs[j].key # defs[i].key
                => /\ defs[i].key \in DOMAIN kept
                   /\ kept[defs[i].key] = defs[i].value

\* C30 witness: detect_adk_config returned for a root whose .env defines
\* GOOGLE_API_KEY=abc and whose .env.template defines it as one and then as
\* two; the value kept is two.
C30_Witness ==
    /\ ConfigReturned
    /\ LET defs == EnvDefinitions
       IN  \E i, j, k \in DOMAIN defs :
              /\ i < j /\ j < k
              /\ defs[i] = [key |-> "GOOGLE_API_KEY", value |-> "abc"]
              /\ defs[j] = [key |-> "GOOGLE_API_KEY", value |-> "one"]
              /\ defs[k] = [key |-> "GOOGLE_API_KEY", value |-> "two"]
    /\ config_result[1].info.environment_variables["GOOGLE_API_KEY"] = "two"

(***************************************************************************)
(* Completeness of find_adk_projects (SpecFind).                           *)
(***************************************************************************)
\* The paths of the directories at depth 0, 1 or 2 below the root that are
\* reached through directories only.
DirPaths ==
    {p \in UNION {[1..n -> 1..Len(fs)] : n \in 1..3} :
        /\ p[1] = 1
        /\ \A i \in DOMAIN p : fs[p[i]].kind = "dir"
        /\ \A i \in 2..Len(p) : fs[p[i]].parent = p[i - 1]}

\* The manifests and configuration of the directory classify it as a project.
CarriesAdkMarkers(p) ==
    determine_project_type(
        fs, detect_adk_project(fs, p, max_file_size).info) # "None"

\* C29 as claimed: when the search is over, every directory at depth 0, 1 or
\* 2 that carries ADK markers, has no deny-listed path component and no
\* reported ancestor, and that can be listed like all its ancestors, appears
\* exactly once in the result, even when a directory nested inside it cannot
\* be listed.
C29_CompleteWithinBounds ==
    pc = "done" =>
        \A p \in DirPaths :
            /\ CarriesAdkMarkers(p)
            /\ NoSkippedName(p)
            /\ \A n \in 1..Len(p) : can_read_dir(fs, SubSeq(p, 1, n))
            /\ \A n \in 1..(Len(p) - 1) : ~Recorded(SubSeq(p, 1, n))
            => Cardinality({i \in DOMAIN projects :
                              projects[i].root_path = p}) = 1

(***************************************************************************)
(* The helpers around the detectors and the validator (SpecHelpers): one   *)
(* call of validate_adk_config, is_suitable_for_review,                    *)
(* get_file_statistics or should_process_file on an input.                 *)
(***************************************************************************)
\* Variant of validate_adk_config that goes on after the first issue.
validate_adk_config_no_return(config_info) ==
    LET has_env_file ==
            \E i \in DOMAIN config_info.config_files :
                config_info.config_files[i].config_type = "Environment"
        has_api_key ==
            "GOOGLE_API_KEY" \in DOMAIN config_info.environment_variables
    IN  (IF ~config_info.has_adk_config
         THEN <<"No ADK configuration detected">> ELSE <<>>)
        \o (IF ~config_info.google_api_configured
               /\ ~config_info.vertex_ai_configured
            THEN <<"Neither Google API nor Vertex AI is configured">>
            ELSE <<>>)
        \o (IF ~has_env_file
            THEN <<"No .env file found for environment configuration">>
            ELSE <<>>)
        \o (IF config_info.google_api_configured /\ ~has_api_key
            THEN <<"GOOGLE_API_KEY not found in environment variables">>
            ELSE <<>>)

\* validate_adk_config: the Vec of issues
validate_adk_config(config_info) ==
    LET has_env_file ==
            \E i \in DOMAIN config_info.config_files :
                config_info.config_files[i].config_type = "Environment"
        has_api_key ==
            "GOOGLE_API_KEY" \in DOMAIN config_info.environment_variables
    IN  IF ~config_info.has_adk_config
        THEN <<"No ADK configuration detected">>
        ELSE (IF ~config_info.google_api_configured
                /\ ~config_info.vertex_ai_configured
              THEN <<"Neither Google API nor Vertex AI is configured">>
              ELSE <<>>)
             \o (IF ~has_env_file
                 THEN <<"No .env file found for environment configuration">>
                 ELSE <<>>)
             \o (IF config_info.google_api_configured /\ ~has_api_key
                 THEN <<"GOOGLE_API_KEY not found in environment variables">>
                 ELSE <<>>)

\* Variant of is_suitable_for_review without the limit on the size.
is_suitable_for_review_any_size(v, file) ==
    LET result == validate_file(v, file)
    IN  IF ~result.ok THEN Err(result.value)
        ELSE IF ~result.value.is_valid THEN Ok(FALSE)
        ELSE Ok(result.value.file_type \in {"Rust", "Python"})

\* is_suitable_for_review: Ok(bool), or the Err of validate_file
is_suitable_for_review(v, file) ==
    LET result == validate_file(v, file)
    IN  IF ~result.ok THEN Err(result.value)
        ELSE IF ~result.value.is_valid THEN Ok(FALSE)
        ELSE IF result.value.file_type \in {"Rust", "Python"}
        THEN Ok(result.value.file_size <= 100 * 1024)
        ELSE Ok(FALSE)

\* FileStatistics::default()
EmptyFileStatistics ==
    [total_files |-> 0, valid_files |-> 0, invalid_files |-> 0,
     total_size |-> 0, valid_size |-> 0, rust_files |-> 0,
     python_files |-> 0, config_files |-> 0, doc_files |-> 0,
     env_files |-> 0, build_files |-> 0, unknown_files |-> 0]

\* get_file_statistics: the loop from result i on
RECURSIVE get_file_statistics(_, _, _)
get_file_statistics(results, i, stats) ==
    IF i > Len(results) THEN stats
    ELSE LET result == results[i]
             counter ==
                 CASE result.file_type = "Rust" -> "rust_files"
                   [] result.file_type = "Python" -> "python_files"
                   [] result.file_type = "Config" -> "config_files"
                   [] result.file_type = "Documentation" -> "doc_files"
                   [] result.file_type = "Environment" -> "env_files"
                   [] result.file_type = "Build" -> "build_files"
                   [] OTHER -> "unknown_files"
             sized == [stats EXCEPT !.total_files = @ + 1,
                                    !.total_size = @ + result.file_size]
             judged == IF result.is_valid
                       THEN [sized EXCEPT !.valid_files = @ + 1,
                                          !.valid_size = @ + result.file_size]
                       ELSE [sized EXCEPT !.invalid_files = @ + 1]
         IN  get_file_statistics(results, i + 1,
                                 [judged EXCEPT ![counter] = @ + 1])

\* Variant of average_file_size that rounds up.
average_file_size_rounded_up(stats) ==
    IF stats.total_files = 0 THEN 0
    ELSE (stats.total_size + stats.total_files - 1) \div stats.total_files

\* FileStatistics::average_file_size
average_file_size(stats) ==
    IF stats.total_files = 0 THEN 0
    ELSE stats.total_size \div stats.total_files

\* should_process_file on a path and what is there: Ok(bool), or the Err
\* of fs::metadata.  The file names are looked at only for a path without
\* an extension.
should_process_file(max_size, file) ==
    LET ext == path_extension(file.path)
    IN  IF file.kind = "missing" THEN Ok(FALSE)
        ELSE IF file.kind = "vanished"
        THEN Err("Failed to get metadata for \"" \o file.path \o "\"")
        ELSE IF file.size > max_size THEN Ok(FALSE)
        ELSE IF ext # None
        THEN Ok(ext[1] \in {"rs", "py", "toml", "json", "yaml", "yml", "md"})
        ELSE Ok(path_file_name(file.path)
                    \in {"Cargo.toml", "requirements.txt", "setup.py", ".env",
                         ".env.template"})

\* The ConfigInfo values handed to validate_adk_config: every combination
\* of the three flags it reads, of config_files without and with a .env
\* record, and of environment_variables without and with GOOGLE_API_KEY.
ConfigInfos ==
    LET record(name) ==
            [path                  |-> ConfigRef(RootPath, name),
             config_type           |-> determine_config_type(name),
             contains_adk_settings |-> TRUE,
             detected_settings     |-> <<"key:google-adk">>]
    IN  {[EmptyConfigInfo EXCEPT !.has_adk_config = has,
                                 !.google_api_configured = google,
                                 !.vertex_ai_configured = vertex,
                                 !.config_files = files,
                                 !.environment_variables = env] :
            has \in BOOLEAN, google \in BOOLEAN, vertex \in BOOLEAN,
            files \in {<<>>, <<record(".env")>>, <<record("Cargo.toml")>>,
                       <<record("Cargo.toml"), record(".env.local")>>},
            env \in {[k \in {} |-> ""],
                     [k \in {"GOOGLE_API_KEY"} |-> "abc"],
                     [k \in {"RUST_LOG"} |-> "info"]}}

\* The inputs of the helper calls.  For validate_adk_config the ConfigInfo
\* values; for is_suitable_for_review the candidates of the validator and
\* files around the limit of 100 KiB; for get_file_statistics sequences of
\* valid and invalid results of every file type, of one and of two bytes;
\* for should_process_file the listed names, a name for each listed
\* extension and other names, each of two and of three bytes, and paths
\* where there is no file.
InitHelpers ==
    LET review_candidates(v) ==
            Candidates(v)
            \cup {[path |-> p, kind |-> "file", size |-> z] :
                     p \in {"src/main.rs", "src/agent.py", "docs/guide.md"},
                     z \in {100 * 1024, 100 * 1024 + 1}}
        result_choices ==
            {FileValidationResult(
                 "f", valid, bytes, type,
                 IF valid THEN None ELSE Some("File too small")) :
                valid \in BOOLEAN, bytes \in {1, 2},
                type \in {"Rust", "Python", "Config", "Documentation",
                          "Environment", "Build", "Unknown"}}
        process_candidates ==
            {[path |-> p, kind |-> "file", size |-> z] :
                p \in {"Cargo.toml", "requirements.txt", "setup.py", ".env",
                       ".env.template", "src/main.rs", "src/agent.py",
                       "adk.toml", "config.json", "config.yaml", "ci.yml",
                       "README.md", "notes.txt", "Makefile"},
                z \in {2, 3}}
            \cup {[path |-> "src/gone.rs", kind |-> "missing", size |-> 0],
                  [path |-> "src", kind |-> "dir", size |-> 0],
                  [path |-> "src/lib.rs", kind |-> "vanished", size |-> 0]}
    IN  /\ returned = <<>>
        /\ fs = <<MissingNode>>
        /\ project_result = <<>>
        /\ file_result = <<>>
        /\ Idle
        /\ \/ /\ pc = "issues"
              /\ config_result
                    \in {<<[ok |-> TRUE, info |-> i]>> : i \in ConfigInfos}
              /\ max_file_size = default_max_file_size
              /\ validator = <<>>
              /\ file_paths = <<>>
              /\ batch_result = <<>>
           \/ /\ pc = "review"
              /\ validator \in ValidatorPresets
              /\ file_paths \in [1..1 -> review_candidates(validator)]
              /\ max_file_size = default_max_file_size
              /\ config_result = <<>>
              /\ batch_result = <<>>
           \/ /\ pc = "statistics"
              /\ batch_result \in
                    {<<Ok(rs)>> :
                        rs \in UNION {[1..n -> result_choices] :
                                         n \in 0..MaxPaths}}
              /\ max_file_size = default_max_file_size
              /\ config_result = <<>>
              /\ validator = <<>>
              /\ file_paths = <<>>
           \/ /\ pc = "process"
              /\ max_file_size \in {2, default_max_file_size}
              /\ file_paths \in [1..1 -> process_candidates]
              /\ config_result = <<>>
              /\ validator = <<>>
              /\ batch_result = <<>>

\* A caller runs validate_adk_config on the ConfigInfo.
ValidateConfig ==
    /\ pc = "issues"
    /\ returned = <<>>
    /\ returned' = <<[call  |-> "validate_adk_config",
                      value |-> validate_adk_config(config_result[1].info)]>>
    /\ UNCHANGED <<fs, max_file_size, pc, project_result, config_result, stack,
                   projects, classified, content, cargo_version,
                   config_version, validator, file_paths, file_result,
                   batch_result>>

\* A caller runs is_suitable_for_review on the path.
ReviewFile ==
    /\ pc = "review"
    /\ returned = <<>>
    /\ returned' = <<[call  |-> "is_suitable_for_review",
                      value |-> is_suitable_for_review(validator,
                                                       file_paths[1])]>>
    /\ UNCHANGED <<fs, max_file_size, pc, project_result, config_result, stack,
                   projects, classified, content, cargo_version,
                   config_version, validator, file_paths, file_result,
                   batch_result>>

\* A caller runs get_file_statistics on the results and asks the
\* statistics for the average size.
FileStatistics ==
    /\ pc = "statistics"
    /\ returned = <<>>
    /\ LET stats == get_file_statistics(batch_result[1].value, 1,
                                        EmptyFileStatistics)
       IN  returned' = <<[call  |-> "get_file_statistics",
                          value |-> [statistics |-> stats,
                                     average_file_size |->
                                         average_file_size(stats)]]>>
    /\ UNCHANGED <<fs, max_file_size, pc, project_result, config_result, stack,
                   projects, classified, content, cargo_version,
                   config_version, validator, file_paths, file_result,
                   batch_result>>

\* A caller runs should_process_file on the path.
ShouldProcessFile ==
    /\ pc = "process"
    /\ returned = <<>>
    /\ returned' = <<[call  |-> "should_process_file",
                      value |-> should_process_file(max_file_size,
                                                    file_paths[1])]>>
    /\ UNCHANGED <<fs, max_file_size, pc, project_result, config_result, stack,
                   projects, classified, content, cargo_version,
                   config_version, validator, file_paths, file_result,
                   batch_result>>

NextHelpers ==
    ValidateConfig \/ ReviewFile \/ FileStatistics \/ ShouldProcessFile

SpecHelpers == InitHelpers /\ [][NextHelpers]_vars

(***************************************************************************)
(* Properties of the helpers (SpecHelpers).                                *)
(***************************************************************************)
\* The helper has returned.
Returned(call) == returned # <<>> /\ returned[1].call = call

\* C22: validate_adk_config returns exactly "No ADK configuration detected"
\* when has_adk_config is false; otherwise, in this order and nothing else,
\* the neither-API issue iff neither flag is set, the no-.env issue iff no
\* config_files entry has type Environment, and the GOOGLE_API_KEY issue iff
\* google_api_configured is set and the key is not in environment_variables.
C22_IssuesOfConfig ==
    Returned("validate_adk_config") =>
        LET info == config_result[1].info
            neither == "Neither Google API nor Vertex AI is configured"
            no_env  == "No .env file found for environment configuration"
            no_key  == "GOOGLE_API_KEY not found in environment variables"
            due(issue) ==
                CASE issue = neither ->
                        ~info.google_api_configured
                        /\ ~info.vertex_ai_configured
                  [] issue = no_env ->
                        \A i \in DOMAIN info.config_files :
                            info.config_files[i].config_type # "Environment"
                  [] OTHER ->
                        /\ info.google_api_configured
                        /\ "GOOGLE_API_KEY"
                              \notin DOMAIN info.environment_variables
        IN  returned[1].value =
                IF ~info.has_adk_config
                THEN <<"No ADK configuration detected">>
                ELSE SelectSeq(<<neither, no_env, no_key>>, due)

\* C22 witness: validate_adk_config returned the no-.env issue followed by
\* the GOOGLE_API_KEY issue for a ConfigInfo with has_adk_config.
C22_Witness ==
    /\ Returned("validate_adk_config")
    /\ config_result[1].info.has_adk_config
    /\ returned[1].value =
          <<"No .env file found for environment configuration",
            "GOOGLE_API_KEY not found in environment variables">>

\* C22 witness of the short circuit: the single issue was returned for a
\* ConfigInfo without has_adk_config that has no .env record either.
C22_WitnessNoConfig ==
    /\ Returned("validate_adk_config")
    /\ ~config_result[1].info.has_adk_config
    /\ config_result[1].info.config_files = <<>>
    /\ returned[1].value = <<"No ADK configuration detected">>

\* C26: is_suitable_for_review returns true iff validate_file reports the
\* path valid, its file_type is Rust or Python and its size is at most
\* 102400 bytes; for missing paths, directories, excluded paths and non-code
\* files it returns false, not an error.
C26_SuitableForReview ==
    Returned("is_suitable_for_review") =>
        LET file   == file_paths[1]
            result == validate_file(validator, file)
            review == returned[1].value
        IN  /\ review = Ok(TRUE)
                  <=> /\ result.ok
                      /\ result.value.is_valid
                      /\ result.value.file_type \in {"Rust", "Python"}
                      /\ result.value.file_size <= 102400
            /\ \/ file.kind \in {"missing", "dir"}
               \/ file.kind = "file" /\ is_excluded_file(validator, file.path)
               \/ /\ file.kind = "file"
                  /\ determine_file_type(file.path) \notin {"Rust", "Python"}
               => review = Ok(FALSE)

\* C26 witness: is_suitable_for_review returned false for a Rust file of
\* 102401 bytes that validate_file reports valid.
C26_Witness ==
    /\ Returned("is_suitable_for_review")
    /\ file_paths[1] = [path |-> "src/main.rs", kind |-> "file",
                        size |-> 102401]
    /\ validate_file(validator, file_paths[1]).value.is_valid
    /\ returned[1].value = Ok(FALSE)

\* C26 witness of the limit itself: true for a Python file of 102400 bytes.
C26_WitnessAtLimit ==
    /\ Returned("is_suitable_for_review")
    /\ file_paths[1] = [path |-> "src/agent.py", kind |-> "file",
                        size |-> 102400]
    /\ returned[1].value = Ok(TRUE)

\* The sum of file_size over the results, or over the valid ones only.
RECURSIVE SizeOfResults(_, _)
SizeOfResults(results, only_valid) ==
    IF results = <<>> THEN 0
    ELSE (IF only_valid /\ ~results[1].is_valid THEN 0
          ELSE results[1].file_size)
         + SizeOfResults(Tail(results), only_valid)

C28_ProcessedFiles ==
    Returned("should_process_file") =>
        LET file == file_paths[1]
            ext  == path_extension(file.path)
        IN  /\ /\ file.kind = "file"
               /\ file.size <= max_file_size
               /\ \/ path_file_name(file.path)
                        \in {"Cargo.toml", "requirements.txt", "setup.py",
                             ".env", ".env.template"}
                  \/ /\ ext # None
                     /\ ext[1] \in {"rs", "py", "toml", "json", "yaml", "yml",
                                    "md"}
               => returned[1].value = Ok(TRUE)
            /\ \/ file.kind = "missing"
               \/ file.kind = "file" /\ file.size > max_file_size
               => returned[1].value = Ok(FALSE)

=============================================================================
